---- MODULE Spec2Model ----
(***************************************************************************)
(* Model of the incremental batch indexing pipeline of the web scraper     *)
(* service: IncrementalBatchIndexer (add / addMultiple / flush /           *)
(* flushBuffer / getStats) together with the outcomes of its collaborators *)
(* indexContent, onProgress, updateJobProgress and the progress POST.      *)
(*                                                                         *)
(* JavaScript runs the code between two awaits atomically, so every action *)
(* below is one such run: it starts where a call is made or an awaited     *)
(* promise settles and ends at the next await (or at the return).          *)
(*                                                                         *)
(* The views of the service that share the module:                         *)
(*   Spec, SpecAwaited  the indexer alone, indexContent known by results;  *)
(*   SpecPipeline       the indexer as main drives it, with indexContent   *)
(*                      and each upsert request spelled out;               *)
(*   SpecJob            the processes of one job (main), the Job Status    *)
(*                      Store and the callback URL;                        *)
(*   SpecJobStore       the same with the store configured or not, and a   *)
(*                      client calling getJobStatus;                       *)
(*   SpecCallbacks      a single-process job whose callback endpoint may   *)
(*                      fail;                                              *)
(*   SpecCredentials    setDynamicCredentials and getCredentials;          *)
(*   SpecChunker        chunkContent, one loop iteration a step;           *)
(*   SpecReindex        indexContent called twice on one document;         *)
(*   SpecTwoPages       indexContent called on two pages of one brand;     *)
(*   SpecStats          the indexer and a client calling getStats;         *)
(*   SpecFlush          the indexer with its client's flush() calls        *)
(*                      counted.                                           *)
(***************************************************************************)
EXTENDS Integers, Sequences, FiniteSets, TLC

\* ------------------------------------------------------------------ bounds
MaxDocs == 3        \* documents passed to the indexer over its lifetime
MaxBatchSize == 2   \* largest configured batchSize
MaxChunks == 1      \* largest chunk count a document yields
MaxInFlight == 2    \* calls a non-awaiting caller leaves unsettled at once
MaxDocChunks == 2   \* largest chunk count the chunker gives a document (pipeline)
MaxShards == 2      \* largest number of shards of a job
MaxUrls == 2        \* largest number of URLs one process is given
MaxResolutions == 3 \* getCredentials calls followed in one process
MaxPieces == 2      \* pieces (a word and what ends it) a generated text is made of
MaxFlushCalls == 2  \* calls of flush() a client makes on one indexer

VARIABLES
  options,        \* batchSize and which of onProgress / jobId / callbackUrl are set
  callerAwaits,   \* TRUE: the caller awaits every call before making the next
  buffer,         \* this.buffer
  totalIndexed,   \* this.totalIndexed
  totalFailed,    \* this.totalFailed
  totalChunks,    \* this.totalChunks
  batchNumber,    \* this.batchNumber
  allErrors,      \* this.allErrors (one entry per recorded error, named by its document)
  calls,          \* the unsettled async calls, oldest first, each with its position and locals
  rejected,       \* number of calls whose promise was rejected
  passed,         \* number of documents passed to add/addMultiple so far
  added,          \* number of documents add() has pushed so far
  handed,         \* per document: how often it was handed to indexContent
  outcome,        \* per document: "none", "ok" or "failed" (what indexContent gave)
  chunks,         \* per document: chunksIndexed reported by indexContent
  flushLog,       \* the batch of every flush cycle, in the order the cycles started
  explicit,       \* flush cycles started by flush() rather than by add()
  merged,         \* flush cycles whose counters were merged into the totals
  progressLog,    \* BatchProgress snapshots handed to onProgress, in call order
  redisLog,       \* arguments of the updateJobProgress calls, in call order
  httpLog,        \* payloads of the progress POSTs, in call order
  threw,          \* flush cycles whose onProgress callback threw
  \* ---- indexContent and the vector store (the pipeline specification)
  ic,             \* the running activations of indexContent
  invoked,        \* the documents indexContent was called on, in call order
  sent,           \* the upsert requests made, in the order they were sent
  stored,         \* the chunks the vector store holds
  \* ---- the orchestrator processes of one job and the job status store
  job,            \* how the job was started: arguments and environment
  proc,           \* per process: position in main() and its locals
  pending,        \* per process: the SET commands of a Promise.all not yet landed
  store,          \* the keys of the job in the Job Status Store
  effects,        \* per process: which kinds of work it has done
  posts,          \* the payloads POSTed to callbackUrl
  terminal,       \* the markJobCompleted calls made, in call order
  \* ---- the vector-store credentials of the process (upstash-indexer.ts)
  cachedCredentials,   \* the module's cachedCredentials
  dynamicCredentials,  \* the module's dynamicCredentials
  env,                 \* UPSTASH_VECTOR_REST_URL and _TOKEN of the environment
  lastSet,             \* the argument of the latest setDynamicCredentials call
  resolved,            \* every getCredentials call so far: what it gave, and after which set
  \* ---- one call of chunkContent
  content,        \* the text argument
  chunkSize,      \* the chunkSize argument
  chunkOverlap,   \* the chunkOverlap argument
  limitedContent, \* the trimmed, truncated text
  currentIndex,   \* the start of the window
  chunkList,      \* the local chunks: the trimmed chunks pushed so far
  ranges,         \* per pushed chunk: the window [from, to) of limitedContent it was cut from
  cpc,            \* "idle" before the call, "loop" inside the while loop, "returned"
  \* ---- one document indexed twice (indexContent, generateChunkId, the store)
  document,       \* the arguments: content.url, content.description, content.content, brandSlug
  run,            \* which call of indexContent on the document this is
  nextChunk,      \* the loop variable i of indexContent
  results,        \* per finished call: what indexContent returned
  idLog,          \* per call: the ids of the vectors it sent, in order
  records,        \* the ids the vector store holds
  afterFirst,     \* the ids the vector store held when the first call returned
  vectorLog,      \* the vectors handed to upsertVectors, in order: page, id, metadata
  \* ---- a client of the Job Status Store asking for the job's status
  reader,         \* one call of getJobStatus: its GET commands and what it returned
  \* ---- a client of the indexer asking for its statistics
  stats,          \* what the latest call of getStats() returned
  flushCalls      \* the calls of flush() a client has made

indexerVars == <<options, callerAwaits, buffer, totalIndexed, totalFailed,
                 totalChunks, batchNumber, allErrors, calls, rejected, passed,
                 added, handed, outcome, chunks, flushLog, explicit, merged,
                 progressLog, redisLog, httpLog, threw>>
pipelineVars == <<ic, invoked, sent, stored>>
jobVars == <<job, proc, pending, store, effects, posts, terminal>>
credVars == <<cachedCredentials, dynamicCredentials, env, lastSet, resolved>>
chunkerVars == <<content, chunkSize, chunkOverlap, limitedContent, currentIndex,
                 chunkList, ranges, cpc>>
reindexVars == <<document, run, nextChunk, results, idLog, records, afterFirst,
                 vectorLog>>
clientVars == <<reader, stats, flushCalls>>
libVars == <<credVars, chunkerVars, reindexVars, clientVars>>
vars == <<indexerVars, pipelineVars, jobVars, libVars>>

Docs == 1..MaxDocs

\* ------------------------------------------------------------- helpers
\* the sum of f[d] over the documents d of S that are at most n
RECURSIVE SumUpTo(_, _, _)
SumUpTo(f, S, n) ==
  IF n = 0 THEN 0
  ELSE (IF n \in S THEN f[n] ELSE 0) + SumUpTo(f, S, n - 1)
SumOver(f, S) == SumUpTo(f, S, MaxDocs)

Range(s) == {s[k] : k \in 1..Len(s)}

\* an idle set of locals of flushBuffer
NoLocals ==
  [batch |-> <<>>, i |-> 0, batchIndexed |-> 0, batchFailed |-> 0,
   batchChunks |-> 0, batchUrls |-> <<>>, batchErrors |-> <<>>,
   progress |-> <<>>, flushNo |-> 0]

NewCall(op, rest) ==
  [op |-> op, pc |-> "start", rest |-> rest, loc |-> NoLocals]

\* ---------------------------------------------------- the code's decisions

\* add(): if (this.buffer.length >= this.options.batchSize)
ThresholdOff(len, batchSize) == len > batchSize
ThresholdReached(len, batchSize) == len >= batchSize

\* flushBuffer(): this.batchNumber++
BatchNumberKept(n) == n
NextBatchNumber(n) == n + 1

\* flushBuffer(): const batch = [...this.buffer]; this.buffer = []
SnapshotKeepsBuffer(buf) == [batch |-> buf, buffer |-> buf]
SnapshotAndClear(buf) == [batch |-> buf, buffer |-> <<>>]

\* what the awaited indexContent(content, ...) can give the batch loop:
\* a result object {success, chunksIndexed, error?} or an exception
IndexOutcomes ==
  {[thrown |-> FALSE, success |-> TRUE, chunksIndexed |-> n, error |-> FALSE] :
      n \in 0..MaxChunks}
  \cup {[thrown |-> FALSE, success |-> FALSE, chunksIndexed |-> 0, error |-> e] :
      e \in BOOLEAN}
  \cup {[thrown |-> TRUE, success |-> FALSE, chunksIndexed |-> 0, error |-> TRUE]}

\* body of the for loop of flushBuffer for one document: the per-batch counters
CountResultDropsFailure(loc, doc, res) ==
  IF (~res.thrown) /\ res.success
    THEN [loc EXCEPT !.batchIndexed = @ + 1,
                     !.batchChunks = @ + res.chunksIndexed,
                     !.batchUrls = Append(@, doc)]
    ELSE loc
CountResultCountsBoth(loc, doc, res) ==
  IF (~res.thrown) /\ res.success
    THEN [loc EXCEPT !.batchIndexed = @ + 1,
                     !.batchChunks = @ + res.chunksIndexed,
                     !.batchUrls = Append(@, doc)]
    ELSE [loc EXCEPT !.batchIndexed = @ + 1,
                     !.batchFailed = @ + 1,
                     !.batchErrors = Append(@, doc)]
CountResult(loc, doc, res) ==
  IF res.thrown
    THEN [loc EXCEPT !.batchFailed = @ + 1,
                     !.batchErrors = Append(@, doc)]
  ELSE IF res.success
    THEN [loc EXCEPT !.batchIndexed = @ + 1,
                     !.batchChunks = @ + res.chunksIndexed,
                     !.batchUrls = Append(@, doc)]
    ELSE [loc EXCEPT !.batchFailed = @ + 1,
                     !.batchErrors = IF res.error THEN Append(@, doc) ELSE @]

\* the for loop goes on with the next document whatever the result was
NextIndexStopsOnFailure(i, n, res) ==
  IF res.thrown \/ ~res.success THEN n + 1 ELSE i + 1
NextIndex(i, n, res) == i + 1

\* const progress: BatchProgress = {...}
MakeProgressPerBatch(tIndexed, tFailed, tChunks, bNumber, loc) ==
  [indexedCount |-> loc.batchIndexed, failedCount |-> loc.batchFailed,
   chunksIndexed |-> loc.batchChunks, batchNumber |-> bNumber,
   batchUrls |-> loc.batchUrls, batchErrors |-> loc.batchErrors]
MakeProgress(tIndexed, tFailed, tChunks, bNumber, loc) ==
  [indexedCount |-> tIndexed, failedCount |-> tFailed,
   chunksIndexed |-> tChunks, batchNumber |-> bNumber,
   batchUrls |-> loc.batchUrls, batchErrors |-> loc.batchErrors]

\* try { await this.options.onProgress(progress) } catch { console.warn }
OnProgressUncaught(didThrow) == IF didThrow THEN "rejected" ELSE "continue"
OnProgressSettled(didThrow) == "continue"

\* the order of the progress sinks after the totals were merged
AfterUpdate == IF options.callbackUrl THEN "sendProgressCallback" ELSE "return"
AfterOnProgressSkipsStore == AfterUpdate
AfterOnProgress == IF options.jobId THEN "updateJobProgress" ELSE AfterUpdate
AfterMerge == IF options.onProgress THEN "onProgress" ELSE AfterOnProgress

\* where a call goes on once its flushBuffer (or add without flush) returned
Returned(call) ==
  IF call.op = "addMultiple" /\ call.rest # <<>> THEN "next" ELSE "resolved"

\* the call list once call c is at pc: a settled call leaves the list
Without(cs, c) == [j \in 1..(Len(cs) - 1) |-> IF j < c THEN cs[j] ELSE cs[j + 1]]
Moved(cs, c, pc, loc) ==
  IF pc \in {"resolved", "rejected"}
    THEN Without(cs, c)
    ELSE [cs EXCEPT ![c].pc = pc, ![c].loc = loc]

\* getStats(), hasPending(), getPendingCount(): reads only
getStatsWithoutPending ==
  [totalIndexed |-> totalIndexed, totalFailed |-> totalFailed,
   totalChunks |-> totalChunks, batchCount |-> batchNumber,
   errors |-> allErrors, pendingCount |-> 0]
getStats ==
  [totalIndexed |-> totalIndexed, totalFailed |-> totalFailed,
   totalChunks |-> totalChunks, batchCount |-> batchNumber,
   errors |-> allErrors, pendingCount |-> Len(buffer)]
hasPending == Len(buffer) > 0
getPendingCount == Len(buffer)

\* ------------------------------------------------------------------- Init
\* a fresh IncrementalBatchIndexer
IndexerFresh ==
  /\ buffer = <<>>
  /\ totalIndexed = 0
  /\ totalFailed = 0
  /\ totalChunks = 0
  /\ batchNumber = 0
  /\ allErrors = <<>>
  /\ calls = <<>>
  /\ rejected = 0
  /\ passed = 0
  /\ added = 0
  /\ handed = [d \in Docs |-> 0]
  /\ outcome = [d \in Docs |-> "none"]
  /\ chunks = [d \in Docs |-> 0]
  /\ flushLog = <<>>
  /\ explicit = {}
  /\ merged = {}
  /\ progressLog = <<>>
  /\ redisLog = <<>>
  /\ httpLog = <<>>
  /\ threw = {}

\* no indexContent running, nothing sent to the vector store
PipelineFresh ==
  /\ ic = {}
  /\ invoked = <<>>
  /\ sent = <<>>
  /\ stored = {}

\* no orchestrator process of a job
NoJob ==
  /\ job = <<>>
  /\ proc = <<>>
  /\ pending = <<>>
  /\ store = <<>>
  /\ effects = <<>>
  /\ posts = {}
  /\ terminal = <<>>

\* no credentials set or resolved yet, no vector-store environment
Null == [kind |-> "null"]
NoCredentials ==
  /\ cachedCredentials = Null
  /\ dynamicCredentials = Null
  /\ env = [url |-> "", token |-> ""]
  /\ lastSet = [kind |-> "never"]
  /\ resolved = <<>>

\* chunkContent not called
NoChunker ==
  /\ content = <<>>
  /\ chunkSize = 0
  /\ chunkOverlap = 0
  /\ limitedContent = <<>>
  /\ currentIndex = 0
  /\ chunkList = <<>>
  /\ ranges = <<>>
  /\ cpc = "idle"

\* getJobStatus not called
NoReader ==
  reader = [pc |-> "idle", left |-> {},
            got |-> [status |-> "none", indexed |-> -1],
            result |-> [kind |-> "none"]]

\* getStats() not called
NoStats == stats = [kind |-> "none"]

\* flush() not called by the client
NoFlushCalls == flushCalls = 0

\* no document handed to indexContent
NoDocument ==
  /\ document = <<>>
  /\ run = 0
  /\ nextChunk = 0
  /\ results = <<>>
  /\ idLog = <<>>
  /\ records = {}
  /\ afterFirst = {}
  /\ vectorLog = <<>>

Init ==
  /\ options \in [batchSize : 1..MaxBatchSize, onProgress : BOOLEAN,
                  jobId : BOOLEAN, callbackUrl : BOOLEAN]
  /\ callerAwaits \in BOOLEAN
  /\ IndexerFresh
  /\ PipelineFresh
  /\ NoJob
  /\ NoCredentials
  /\ NoChunker
  /\ NoDocument
  /\ NoReader
  /\ NoStats
  /\ NoFlushCalls

\* ------------------------------------------------- pieces of the handlers

\* if (this.buffer.length === 0) return;
\* (the mutant: this.batchNumber++ ahead of the check)
CountsEmptyFlush(cs, c, buf) ==
  /\ buffer' = buf
  /\ calls' = Moved(cs, c, Returned(cs[c]), NoLocals)
  /\ batchNumber' = batchNumber + 1
  /\ UNCHANGED <<handed, flushLog, explicit>>
NothingToFlush(cs, c, buf) ==
  /\ buffer' = buf
  /\ calls' = Moved(cs, c, Returned(cs[c]), NoLocals)
  /\ UNCHANGED <<batchNumber, handed, flushLog, explicit>>

\* flushBuffer() up to its first await: the guard, batchNumber++, the
\* snapshot, and the call of indexContent on the first document of the batch.
\* cs is the call list, c the call running the flush, buf the buffer it sees.
FlushBuffer(cs, c, buf) ==
  IF Len(buf) = 0
    THEN NothingToFlush(cs, c, buf)
    ELSE LET snap == SnapshotAndClear(buf)
             first == snap.batch[1]
         IN /\ batchNumber' = NextBatchNumber(batchNumber)
            /\ buffer' = snap.buffer
            /\ calls' = Moved(cs, c, "index",
                               [NoLocals EXCEPT !.batch = snap.batch,
                                                !.i = 1,
                                                !.flushNo = Len(flushLog) + 1])
            /\ explicit' = IF cs[c].op = "flush"
                              THEN explicit \cup {Len(flushLog) + 1}
                              ELSE explicit
            /\ handed' = [handed EXCEPT ![first] = @ + 1]
            /\ flushLog' = Append(flushLog, snap.batch)

\* add(content) up to its first await (or its return)
AddStep(cs, c, doc) ==
  LET buf == Append(buffer, doc)
  IN /\ added' = added + 1
     /\ IF ThresholdReached(Len(buf), options.batchSize)
          THEN FlushBuffer(cs, c, buf)
          ELSE /\ buffer' = buf
               /\ calls' = Moved(cs, c, Returned(cs[c]), NoLocals)
               /\ UNCHANGED <<batchNumber, handed, flushLog, explicit>>

\* flushBuffer() from the point where the totals are merged: the call moves
\* to the given sink (or returns); entering a sink makes the sink's call.
Enter(c, stage, loc, tIndexed, tFailed, tChunks) ==
  /\ calls' = IF stage = "return"
                THEN Moved(calls, c, Returned(calls[c]), NoLocals)
                ELSE Moved(calls, c, stage, loc)
  /\ progressLog' = IF stage = "onProgress"
                      THEN Append(progressLog, loc.progress)
                      ELSE progressLog
  /\ redisLog' = IF stage = "updateJobProgress"
                   THEN Append(redisLog, [indexed |-> tIndexed,
                                          failed |-> tFailed,
                                          chunks |-> tChunks])
                   ELSE redisLog
  /\ httpLog' = IF stage = "sendProgressCallback"
                  THEN Append(httpLog,
                         [status |-> "progress",
                          indexed |-> loc.progress.indexedCount,
                          failed |-> loc.progress.failedCount,
                          total |-> loc.progress.indexedCount
                                      + loc.progress.failedCount,
                          batchNumber |-> loc.progress.batchNumber,
                          batchUrls |-> loc.progress.batchUrls])
                  ELSE httpLog

\* --------------------------------------------------------------- actions

CanCallUnawaited == Len(calls) < MaxInFlight
CanCall ==
  /\ callerAwaits => Len(calls) = 0
  /\ Len(calls) < MaxInFlight

\* the caller calls add(doc)
CallAdd ==
  /\ CanCall
  /\ passed < MaxDocs
  /\ passed' = passed + 1
  /\ AddStep(Append(calls, NewCall("add", <<>>)), Len(calls) + 1, passed + 1)
  /\ UNCHANGED <<options, callerAwaits, totalIndexed, totalFailed, totalChunks,
                 allErrors, rejected, outcome, chunks, merged, progressLog,
                 redisLog, httpLog, threw>>

\* the caller calls addMultiple(docs) with k documents: the first add runs
\* at once, the others after the awaits of the loop
CallAddMultiple(k) ==
  /\ CanCall
  /\ passed + k <= MaxDocs
  /\ passed' = passed + k
  /\ AddStep(Append(calls, NewCall("addMultiple",
                                   [j \in 1..(k - 1) |-> passed + 1 + j])),
             Len(calls) + 1, passed + 1)
  /\ UNCHANGED <<options, callerAwaits, totalIndexed, totalFailed, totalChunks,
                 allErrors, rejected, outcome, chunks, merged, progressLog,
                 redisLog, httpLog, threw>>

\* addMultiple goes on with its next document
AddMultipleNext(c) ==
  /\ calls[c].pc = "next"
  /\ AddStep([calls EXCEPT ![c].rest = Tail(@)], c, Head(calls[c].rest))
  /\ UNCHANGED <<options, callerAwaits, totalIndexed, totalFailed, totalChunks,
                 allErrors, rejected, passed, outcome, chunks, merged,
                 progressLog, redisLog, httpLog, threw>>

\* the caller calls flush()
CallFlush ==
  /\ CanCall
  /\ FlushBuffer(Append(calls, NewCall("flush", <<>>)), Len(calls) + 1, buffer)
  /\ UNCHANGED <<options, callerAwaits, totalIndexed, totalFailed, totalChunks,
                 allErrors, rejected, passed, added, outcome, chunks, merged,
                 progressLog, redisLog, httpLog, threw>>

\* the awaited indexContent of the current document settles with res: count
\* it, then either call indexContent on the next document or merge the batch
\* into the totals, build the progress snapshot and go to the first sink
IndexDone(c, res) ==
  /\ calls[c].pc = "index"
  /\ LET loc == calls[c].loc
         doc == loc.batch[loc.i]
         loc1 == CountResult(loc, doc, res)
         i1 == NextIndex(loc.i, Len(loc.batch), res)
     IN /\ outcome' = [outcome EXCEPT ![doc] =
                         IF (~res.thrown) /\ res.success THEN "ok" ELSE "failed"]
        /\ chunks' = [chunks EXCEPT ![doc] = res.chunksIndexed]
        /\ IF i1 <= Len(loc.batch)
             THEN /\ calls' = Moved(calls, c, "index", [loc1 EXCEPT !.i = i1])
                  /\ handed' = [handed EXCEPT ![loc.batch[i1]] = @ + 1]
                  /\ UNCHANGED <<totalIndexed, totalFailed, totalChunks,
                                 allErrors, merged, progressLog, redisLog,
                                 httpLog>>
             ELSE LET tI == totalIndexed + loc1.batchIndexed
                      tF == totalFailed + loc1.batchFailed
                      tC == totalChunks + loc1.batchChunks
                      loc2 == [loc1 EXCEPT !.progress =
                                 MakeProgress(tI, tF, tC, batchNumber, loc1)]
                  IN /\ totalIndexed' = tI
                     /\ totalFailed' = tF
                     /\ totalChunks' = tC
                     /\ allErrors' = allErrors \o loc1.batchErrors
                     /\ merged' = merged \cup {loc.flushNo}
                     /\ Enter(c, AfterMerge, loc2, tI, tF, tC)
                     /\ UNCHANGED handed
  /\ UNCHANGED <<options, callerAwaits, buffer, batchNumber, rejected, passed,
                 added, flushLog, explicit, threw>>

\* the awaited onProgress(progress) settles, normally or by throwing
OnProgressDone(c, didThrow) ==
  /\ calls[c].pc = "onProgress"
  /\ threw' = IF didThrow THEN threw \cup {calls[c].loc.flushNo} ELSE threw
  /\ IF OnProgressSettled(didThrow) = "rejected"
       THEN /\ calls' = Moved(calls, c, "rejected", NoLocals)
            /\ rejected' = rejected + 1
            /\ UNCHANGED <<progressLog, redisLog, httpLog>>
       ELSE /\ Enter(c, AfterOnProgress, calls[c].loc,
                     totalIndexed, totalFailed, totalChunks)
            /\ UNCHANGED rejected
  /\ UNCHANGED <<options, callerAwaits, buffer, totalIndexed, totalFailed,
                 totalChunks, batchNumber, allErrors, passed, added, handed,
                 outcome, chunks, flushLog, explicit, merged>>

\* the awaited updateJobProgress(...) settles (its failure is caught)
UpdateJobProgressDone(c) ==
  /\ calls[c].pc = "updateJobProgress"
  /\ Enter(c, AfterUpdate, calls[c].loc, totalIndexed, totalFailed, totalChunks)
  /\ UNCHANGED <<options, callerAwaits, buffer, totalIndexed, totalFailed,
                 totalChunks, batchNumber, allErrors, rejected, passed, added,
                 handed, outcome, chunks, flushLog, explicit, merged, threw>>

\* the awaited sendProgressCallback(progress) settles (it never throws)
SendProgressCallbackDone(c) ==
  /\ calls[c].pc = "sendProgressCallback"
  /\ Enter(c, "return", calls[c].loc, totalIndexed, totalFailed, totalChunks)
  /\ UNCHANGED <<options, callerAwaits, buffer, totalIndexed, totalFailed,
                 totalChunks, batchNumber, allErrors, rejected, passed, added,
                 handed, outcome, chunks, flushLog, explicit, merged, threw>>

\* the indexer on its own: indexContent is known by its results only
Next ==
  \/ CallAdd /\ UNCHANGED <<pipelineVars, jobVars, libVars>>
  \/ \E k \in 2..MaxDocs : CallAddMultiple(k) /\ UNCHANGED <<pipelineVars, jobVars, libVars>>
  \/ CallFlush /\ UNCHANGED <<pipelineVars, jobVars, libVars>>
  \/ \E c \in 1..Len(calls) : AddMultipleNext(c) /\ UNCHANGED <<pipelineVars, jobVars, libVars>>
  \/ \E c \in 1..Len(calls) : \E res \in IndexOutcomes :
        IndexDone(c, res) /\ UNCHANGED <<pipelineVars, jobVars, libVars>>
  \/ \E c \in 1..Len(calls) : \E didThrow \in BOOLEAN :
        OnProgressDone(c, didThrow) /\ UNCHANGED <<pipelineVars, jobVars, libVars>>
  \/ \E c \in 1..Len(calls) :
        UpdateJobProgressDone(c) /\ UNCHANGED <<pipelineVars, jobVars, libVars>>
  \/ \E c \in 1..Len(calls) :
        SendProgressCallbackDone(c) /\ UNCHANGED <<pipelineVars, jobVars, libVars>>

\* every caller: calls may overlap (callerAwaits is chosen by Init)
Spec == Init /\ [][Next]_vars

\* a caller that awaits every add / addMultiple / flush
InitAwaited == Init /\ callerAwaits
SpecAwaited == InitAwaited /\ [][Next]_vars

\* getStats() is called, by the caller or by anyone holding the indexer, at
\* any moment between two runs of the indexer's code
CallGetStats ==
  /\ stats' = [kind |-> "stats", at |-> getStats]
  /\ UNCHANGED indexerVars

\* the indexer and a client reading its statistics
NextStats ==
  \/ Next
  \/ CallGetStats
       /\ UNCHANGED <<pipelineVars, jobVars, credVars, chunkerVars, reindexVars, reader, flushCalls>>

SpecStats == InitAwaited /\ [][NextStats]_vars

\* a client calls flush(): the call of CallFlush, counted
ClientFlush ==
  /\ flushCalls < MaxFlushCalls
  /\ flushCalls' = flushCalls + 1
  /\ CallFlush

\* the indexer with the flush() calls of its client counted
NextFlush ==
  \/ CallAdd /\ UNCHANGED <<pipelineVars, jobVars, libVars>>
  \/ \E k \in 2..MaxDocs : CallAddMultiple(k) /\ UNCHANGED <<pipelineVars, jobVars, libVars>>
  \/ ClientFlush
       /\ UNCHANGED <<pipelineVars, jobVars, credVars, chunkerVars, reindexVars, reader, stats>>
  \/ \E c \in 1..Len(calls) : AddMultipleNext(c) /\ UNCHANGED <<pipelineVars, jobVars, libVars>>
  \/ \E c \in 1..Len(calls) : \E res \in IndexOutcomes :
        IndexDone(c, res) /\ UNCHANGED <<pipelineVars, jobVars, libVars>>
  \/ \E c \in 1..Len(calls) : \E didThrow \in BOOLEAN :
        OnProgressDone(c, didThrow) /\ UNCHANGED <<pipelineVars, jobVars, libVars>>
  \/ \E c \in 1..Len(calls) :
        UpdateJobProgressDone(c) /\ UNCHANGED <<pipelineVars, jobVars, libVars>>
  \/ \E c \in 1..Len(calls) :
        SendProgressCallbackDone(c) /\ UNCHANGED <<pipelineVars, jobVars, libVars>>

\* an indexer with every sink configured, its caller awaiting or not
InitFlush ==
  /\ Init
  /\ options.onProgress
  /\ options.jobId
  /\ options.callbackUrl
SpecFlush == InitFlush /\ [][NextFlush]_vars

TypeOK ==
  /\ options.batchSize \in 1..MaxBatchSize
  /\ batchNumber \in Nat
  /\ totalIndexed \in Nat /\ totalFailed \in Nat /\ totalChunks \in Nat
  /\ passed \in 0..MaxDocs /\ added \in 0..passed
  /\ \A c \in 1..Len(calls) :
       calls[c].pc \in {"index", "onProgress", "updateJobProgress",
                        "sendProgressCallback", "next"}

\* ------------------------------------- indexContent and the vector store

\* if (chunks.length === 0) return {success: true, chunksIndexed: 0}
NoChunksIsFailure ==
  [thrown |-> FALSE, success |-> FALSE, chunksIndexed |-> 0, error |-> TRUE]
NoChunksResult ==
  [thrown |-> FALSE, success |-> TRUE, chunksIndexed |-> 0, error |-> FALSE]

\* the for loop of indexContent once `await upsertVectors([vector])` of chunk
\* i (of n) settled: a throw leaves the loop for the catch block, a success
\* is followed by the 50 ms pause unless the chunk was the last one
AfterUpsertSkipsFailed(ok, i, n) ==
  IF i < n - 1 THEN "delay" ELSE "returned"
AfterUpsert(ok, i, n) ==
  IF ~ok THEN "caught"
  ELSE IF i < n - 1 THEN "delay" ELSE "returned"

\* what indexContent returns: from the catch block, from the zero-chunk
\* return, or from the end of the loop
IndexContentResult(a) ==
  IF a.phase = "caught"
    THEN [thrown |-> FALSE, success |-> FALSE, chunksIndexed |-> 0, error |-> TRUE]
  ELSE IF a.n = 0 THEN NoChunksResult
  ELSE [thrown |-> FALSE, success |-> TRUE, chunksIndexed |-> a.n, error |-> FALSE]

\* indexContent(content) up to its first await: the chunker gave n chunks;
\* with no chunk it returns at once, otherwise chunk 0 is sent
Activation(d, n) ==
  [doc |-> d, n |-> n, i |-> 0, phase |-> IF n = 0 THEN "returned" ELSE "upsert"]

\* the documents this step handed to indexContent (at most one)
NewlyHanded == {d \in Docs : handed'[d] > handed[d]}

\* an upsert request as the log of requests keeps it
Request(d, i) == [doc |-> d, chunk |-> i, state |-> "inflight"]

\* the log once the request in flight of document d has settled as st
Settle(log, d, st) ==
  [j \in 1..Len(log) |->
     IF log[j].doc = d /\ log[j].state = "inflight"
       THEN [log[j] EXCEPT !.state = st]
       ELSE log[j]]

\* how one upsert request can end: a 2xx answer; a non-2xx answer or a
\* network error; no answer within the 30 s (the store may have taken it)
UpsertOutcomes == {"ok", "refused", "timeout", "timeoutStored"}

\* the step's calls of indexContent: the activations in `gone` have returned,
\* the newly handed document starts one whose chunker result is n
Invoke(gone) ==
  IF NewlyHanded = {}
    THEN /\ ic' = ic \ gone
         /\ UNCHANGED <<invoked, sent>>
    ELSE \E n \in 0..MaxDocChunks :
           LET d == CHOOSE x \in NewlyHanded : TRUE
           IN /\ ic' = (ic \ gone) \cup {Activation(d, n)}
              /\ invoked' = Append(invoked, [doc |-> d, n |-> n])
              /\ sent' = IF n = 0 THEN sent ELSE Append(sent, Request(d, 0))

\* the upsert request of the current chunk of document a.doc settles: with a
\* 2xx answer upsertVectors returns, with anything else it throws
UpsertDone(a, out) ==
  /\ a \in ic
  /\ a.phase = "upsert"
  /\ stored' = IF out \in {"ok", "timeoutStored"}
                 THEN stored \cup {[doc |-> a.doc, chunk |-> a.i]}
                 ELSE stored
  /\ sent' = Settle(sent, a.doc, IF out = "ok" THEN "ok" ELSE "failed")
  /\ ic' = (ic \ {a}) \cup {[a EXCEPT !.phase = AfterUpsert(out = "ok", a.i, a.n)]}
  /\ UNCHANGED invoked

\* the 50 ms pause between two chunks is over: the next chunk is sent
DelayDone(a) ==
  /\ a \in ic
  /\ a.phase = "delay"
  /\ ic' = (ic \ {a}) \cup {[a EXCEPT !.i = a.i + 1, !.phase = "upsert"]}
  /\ sent' = Append(sent, Request(a.doc, a.i + 1))
  /\ UNCHANGED <<invoked, stored>>

\* indexContent has returned to the batch loop of call c
IndexContentReturns(c, a) ==
  /\ a \in ic
  /\ a.phase \in {"returned", "caught"}
  /\ calls[c].pc = "index"
  /\ a.doc = calls[c].loc.batch[calls[c].loc.i]
  /\ IndexDone(c, IndexContentResult(a))
  /\ Invoke({a})
  /\ UNCHANGED stored

\* the orchestrator's pipeline: the indexer driven by an awaiting caller,
\* with indexContent and its upsert requests spelled out
NextPipeline ==
  \/ CallAdd /\ Invoke({}) /\ UNCHANGED <<stored, jobVars, libVars>>
  \/ \E k \in 2..MaxDocs :
        CallAddMultiple(k) /\ Invoke({}) /\ UNCHANGED <<stored, jobVars, libVars>>
  \/ CallFlush /\ Invoke({}) /\ UNCHANGED <<stored, jobVars, libVars>>
  \/ \E c \in 1..Len(calls) :
        AddMultipleNext(c) /\ Invoke({}) /\ UNCHANGED <<stored, jobVars, libVars>>
  \/ \E a \in ic : \E out \in UpsertOutcomes :
        UpsertDone(a, out) /\ UNCHANGED <<indexerVars, jobVars, libVars>>
  \/ \E a \in ic : DelayDone(a) /\ UNCHANGED <<indexerVars, jobVars, libVars>>
  \/ \E c \in 1..Len(calls) : \E a \in ic :
        IndexContentReturns(c, a) /\ UNCHANGED <<jobVars, libVars>>
  \/ \E c \in 1..Len(calls) : \E didThrow \in BOOLEAN :
        OnProgressDone(c, didThrow) /\ UNCHANGED <<pipelineVars, jobVars, libVars>>
  \/ \E c \in 1..Len(calls) :
        UpdateJobProgressDone(c) /\ UNCHANGED <<pipelineVars, jobVars, libVars>>
  \/ \E c \in 1..Len(calls) :
        SendProgressCallbackDone(c) /\ UNCHANGED <<pipelineVars, jobVars, libVars>>

InitPipeline == InitAwaited /\ options.onProgress
SpecPipeline == InitPipeline /\ [][NextPipeline]_vars

\* ------------------------- the orchestrator (main) and the Job Status Store
\* One job is run by job.shards processes: a single process without chunk
\* arguments, or shard p of N started with chunkId = p and totalChunks = N.
\* The processes share nothing but the Job Status Store and the callback URL,
\* so a step of a process ends where it has sent a store command or an HTTP
\* request; what a process does on its own between two such points (scraping
\* its URLs, indexing a batch) is one step.  A configured store answers every
\* command.  Each SET of a Promise.all is a request of its own and reaches the
\* store at its own time.  job.redis tells whether UPSTASH_REDIS_REST_URL and
\* UPSTASH_REDIS_REST_TOKEN are both set (the processes of a job and the
\* clients asking for its status share one environment); job.endpoint tells
\* whether the callback endpoint is known to answer 2xx ("up") or may answer
\* anything ("any").

Procs == 1..MaxShards
Running == 1..job.shards
Nil == -1

\* const isChunkedJob = args.chunkId && args.totalChunks && args.totalChunks > 1
IsChunkedJob == job.shards > 1

\* getCredentials() of the vector store: cached, then dynamic, then the
\* environment, where both the URL and the token are needed
GetCredentials(cached, dynamic, envUrl, envToken) ==
  IF cached # "none" THEN cached
  ELSE IF dynamic THEN "dynamic"
  ELSE IF envUrl /\ envToken THEN "env"
  ELSE "missing"

\* validateCredentials(): try { getCredentials(); return true } catch { return false }
ValidateAlways(cred) == TRUE
ValidateCredentials(cred) == cred # "missing"

\* const status = failed > indexed ? "failed" : "completed"
StatusFailedOnTie(indexed, failed) ==
  IF failed >= indexed /\ failed > 0 THEN "failed" ELSE "completed"
StatusOf(indexed, failed) == IF failed > indexed THEN "failed" ELSE "completed"

\* process.exit(failed > indexed ? 1 : 0)
ExitCode(indexed, failed) == IF failed > indexed THEN 1 ELSE 0

\* the SET commands of the three Promise.all of the store module (the keys
\* holding a time stamp and chunks_indexed are left out: nothing reads them)
Set(key, val) == [key |-> key, val |-> val]
MarkJobStartedWrites(total) ==
  {Set("status", "running"), Set("total", total), Set("indexed", 0), Set("failed", 0)}
UpdateJobProgressWrites(indexed, failed) ==
  {Set("indexed", indexed), Set("failed", failed)}
MarkJobCompletedWrites(indexed, failed) ==
  {Set("status", StatusOf(indexed, failed)), Set("indexed", indexed),
   Set("failed", failed)}
MarkBatchCompletedWrites(number) == {Set("last_batch", number)}

\* const creds = getCredentials(); if (!creds) return ...: a store operation
\* sends its commands only with both environment variables set
SendsAlways(configured) == TRUE
Sends(configured) == configured

\* what a POST to the callback URL may come to: a 2xx answer, another status,
\* or a failure of fetch itself
PostAnswers == IF job.endpoint = "up" THEN {"ok"} ELSE {"ok", "status", "network"}

\* what sendProgressCallback and sendCallback give their caller: the whole
\* body is in try/catch and a response that is not ok is only logged
PostRaises(ans) == IF ans = "ok" THEN "resolved" ELSE "rejected"
PostSettled(ans) == "resolved"

\* if (args.jobId && (!args.chunkId || args.chunkId === 1)) markJobStarted
StartsJob(p) == job.jobId /\ (~IsChunkedJob \/ p = 1)

\* if (completedChunksNum >= totalChunksNum)
AnyChunkDone(completed, total) == completed >= 1
AllChunksDone(completed, total) == completed >= total

\* parseInt(value || "0", 10) of a chunk counter
ParseOrZero(v) == IF v = Nil THEN 0 ELSE v

\* the terminal callback payload of main
\*   status: failed > indexed ? "failed" : "completed"
CallbackStatus(indexed, failed) ==
  IF failed > indexed THEN "failed" ELSE "completed"
TerminalPayload(indexed, failed, total) ==
  [status |-> CallbackStatus(indexed, failed), indexed |-> indexed,
   failed |-> failed, total |-> total]

\* the payload of sendProgressCallback of the indexer
ProgressPayload(indexed, failed) ==
  [status |-> "progress", indexed |-> indexed, failed |-> failed,
   total |-> indexed + failed]

NoStore ==
  [status |-> "none", total |-> Nil, indexed |-> Nil, failed |-> Nil,
   chunks_completed |-> 0, chunks_total |-> Nil, last_batch |-> Nil,
   chunk_completed |-> [q \in Procs |-> FALSE],
   chunk_indexed |-> [q \in Procs |-> Nil],
   chunk_failed |-> [q \in Procs |-> Nil]]

NewProc ==
  [pc |-> "main", cred |-> "none", docs |-> 0, indexed |-> 0, failed |-> 0,
   completed |-> Nil, total |-> Nil, k |-> 0, sumIndexed |-> 0, sumFailed |-> 0,
   ret |-> "none", exit |-> Nil, batchNumber |-> 0, answers |-> <<>>]

\* a job as it is dispatched: its arguments, and chunks_total written by the
\* dispatcher of a sharded job (no code of this repository writes that key)
JobStarts(jobs) ==
  /\ options = [batchSize |-> 1, onProgress |-> TRUE, jobId |-> FALSE,
                callbackUrl |-> FALSE]
  /\ callerAwaits = TRUE
  /\ IndexerFresh
  /\ PipelineFresh
  /\ job \in jobs
  /\ job.recorded => job.shards > 1
  /\ proc = [p \in Procs |-> NewProc]
  /\ pending = [p \in Procs |-> {}]
  /\ store = [NoStore EXCEPT !.chunks_total =
                IF job.recorded THEN job.shards ELSE Nil]
  /\ effects = [p \in Procs |-> {}]
  /\ posts = {}
  /\ terminal = <<>>
  /\ NoCredentials
  /\ NoChunker
  /\ NoDocument
  /\ NoReader
  /\ NoStats
  /\ NoFlushCalls

\* the jobs of a deployment with the store configured and the callback
\* endpoint up
InitJob ==
  JobStarts([shards : 1..MaxShards, jobId : BOOLEAN, callbackUrl : BOOLEAN,
             recorded : BOOLEAN, urls : 1..MaxUrls, batchSize : 1..MaxBatchSize,
             redis : {TRUE}, endpoint : {"up"}])

\* a process goes to pc with some locals changed
Goes(p, pr) == proc' = [proc EXCEPT ![p] = pr]
Did(p, what) == effects' = [effects EXCEPT ![p] = @ \cup what]
Issue(p, writes) ==
  pending' = [pending EXCEPT ![p] = IF Sends(job.redis) THEN writes ELSE {}]
Write(st, w) ==
  CASE w.key = "status" -> [st EXCEPT !.status = w.val]
    [] w.key = "total" -> [st EXCEPT !.total = w.val]
    [] w.key = "indexed" -> [st EXCEPT !.indexed = w.val]
    [] w.key = "failed" -> [st EXCEPT !.failed = w.val]
    [] w.key = "last_batch" -> [st EXCEPT !.last_batch = w.val]

\* the POST of a callback has been answered; were the callback function to
\* reject, a progress callback would end the scrape loop in the catch block of
\* main (failed = urls.length - indexed) and a terminal one would end main in
\* main().catch (process.exit(1))
Answered(pr, to, ans) ==
  LET noted == [pr EXCEPT !.answers = Append(@, [to |-> to, ans |-> ans])]
  IN IF PostSettled(ans) = "resolved" THEN noted
     ELSE IF to = "progress"
       THEN [noted EXCEPT !.pc = "finalize", !.failed = job.urls - pr.indexed]
     ELSE [noted EXCEPT !.pc = "exited", !.exit = 1]

\* main() from its start to the first await: the BYOK arguments, the
\* credential check and, for the first shard or a single job, markJobStarted
Start(p) ==
  /\ p \in Running
  /\ proc[p].pc = "main"
  /\ \E byokUrl \in BOOLEAN, byokToken \in BOOLEAN,
        envUrl \in BOOLEAN, envToken \in BOOLEAN :
       LET from == GetCredentials("none", byokUrl /\ byokToken, envUrl, envToken)
           cred == IF from = "missing" THEN "missing" ELSE "found"
       IN IF ~ValidateCredentials(cred)
            THEN /\ Goes(p, [proc[p] EXCEPT !.pc = "exited", !.cred = cred,
                                            !.exit = 1])
                 /\ UNCHANGED <<pending, effects>>
          ELSE IF StartsJob(p)
            THEN /\ Goes(p, [proc[p] EXCEPT !.pc = "markJobStarted", !.cred = cred])
                 /\ Issue(p, MarkJobStartedWrites(job.urls))
                 /\ Did(p, {"markJobStarted"})
          ELSE /\ Goes(p, [proc[p] EXCEPT !.pc = "scrape", !.cred = cred])
               /\ UNCHANGED <<pending, effects>>
  /\ UNCHANGED <<job, store, posts, terminal>>

\* one SET command of a Promise.all reaches the store
Land(p, w) ==
  /\ w \in pending[p]
  /\ store' = Write(store, w)
  /\ pending' = [pending EXCEPT ![p] = @ \ {w}]
  /\ UNCHANGED <<job, proc, effects, posts, terminal>>

\* await markJobStarted(...) is over
MarkJobStartedDone(p) ==
  /\ proc[p].pc = "markJobStarted"
  /\ pending[p] = {}
  /\ Goes(p, [proc[p] EXCEPT !.pc = "scrape"])
  /\ UNCHANGED <<job, pending, store, effects, posts, terminal>>

\* the scrapers give a document for s of the URLs, which addMultiple takes
\* (main scrapes Math.max(indexBatchSize * 2, 10) URLs at a time, so the URLs
\* of a process are one scrape batch)
Scrape(p, s) ==
  /\ proc[p].pc = "scrape"
  /\ Goes(p, [proc[p] EXCEPT !.pc = IF s > 0 THEN "index" ELSE "finalize",
                             !.docs = s])
  /\ Did(p, IF s > 0 THEN {"scrape", "add"} ELSE {"scrape"})
  /\ UNCHANGED <<job, pending, store, posts, terminal>>

\* the scraper throws: the catch block of main takes the indexer's totals
\*   indexed = stats.totalIndexed; failed = urls.length - indexed
ScrapeThrows(p) ==
  /\ proc[p].pc = "scrape"
  /\ Goes(p, [proc[p] EXCEPT !.pc = "finalize",
                             !.failed = job.urls - proc[p].indexed])
  /\ Did(p, {"scrape"})
  /\ UNCHANGED <<job, pending, store, posts, terminal>>

\* where the process goes once a flush cycle of the indexer is over
AfterBatch(docs) == IF docs > 0 THEN "index" ELSE "finalize"

\* one flush cycle of the indexer (by the threshold or by the final flush()):
\* ok of the documents of the batch are indexed, the others fail; then
\* the onProgress of main (markBatchCompleted with a jobId),
\* updateJobProgress(jobId, totalIndexed, totalFailed) and the progress POST
FlushBatch(p, ok, ans) ==
  /\ proc[p].pc = "index"
  /\ proc[p].docs > 0
  /\ LET size == IF proc[p].docs < job.batchSize THEN proc[p].docs
                                                 ELSE job.batchSize
         indexed == proc[p].indexed + ok
         failed == proc[p].failed + (size - ok)
         docs == proc[p].docs - size
     IN /\ ok <= size
        /\ IF job.jobId
             THEN /\ Goes(p, [proc[p] EXCEPT !.pc = "markBatchCompleted",
                                !.indexed = indexed, !.failed = failed,
                                !.docs = docs, !.batchNumber = @ + 1])
                  /\ Issue(p, MarkBatchCompletedWrites(proc[p].batchNumber + 1))
                  /\ Did(p, {"index"})
                  /\ UNCHANGED posts
             ELSE /\ LET pr == [proc[p] EXCEPT !.pc = AfterBatch(docs),
                                   !.indexed = indexed, !.failed = failed,
                                   !.docs = docs, !.batchNumber = @ + 1]
                     IN Goes(p, IF job.callbackUrl
                                  THEN Answered(pr, "progress", ans) ELSE pr)
                  /\ posts' = IF job.callbackUrl
                                THEN posts \cup {ProgressPayload(indexed, failed)}
                                ELSE posts
                  /\ Did(p, IF job.callbackUrl THEN {"index", "callback"}
                                               ELSE {"index"})
                  /\ UNCHANGED pending
  /\ UNCHANGED <<job, store, terminal>>

\* await markBatchCompleted(...) in onProgress is over: updateJobProgress
MarkBatchCompletedDone(p) ==
  /\ proc[p].pc = "markBatchCompleted"
  /\ pending[p] = {}
  /\ Goes(p, [proc[p] EXCEPT !.pc = "updateJobProgress"])
  /\ Issue(p, UpdateJobProgressWrites(proc[p].indexed, proc[p].failed))
  /\ UNCHANGED <<job, store, effects, posts, terminal>>

\* await updateJobProgress(...) is over: the progress POST, the next batch
ProgressWritten(p, ans) ==
  /\ proc[p].pc = "updateJobProgress"
  /\ pending[p] = {}
  /\ LET pr == [proc[p] EXCEPT !.pc = AfterBatch(proc[p].docs)]
     IN Goes(p, IF job.callbackUrl THEN Answered(pr, "progress", ans) ELSE pr)
  /\ posts' = IF job.callbackUrl
                THEN posts \cup {ProgressPayload(proc[p].indexed, proc[p].failed)}
                ELSE posts
  /\ effects' = IF job.callbackUrl
                  THEN [effects EXCEPT ![p] = @ \cup {"callback"}]
                  ELSE effects
  /\ UNCHANGED <<job, pending, store, terminal>>

\* a call of markJobCompleted as the list of terminal calls keeps it
TerminalCall(p, indexed, failed) ==
  [by |-> p, indexed |-> indexed, failed |-> failed,
   status |-> StatusOf(indexed, failed)]

\* "Mark job as completed": markChunkCompleted for a shard, markJobCompleted
\* for a single job, nothing without a jobId
Finalize(p) ==
  /\ proc[p].pc = "finalize"
  /\ IF job.jobId /\ IsChunkedJob
       THEN /\ Goes(p, IF Sends(job.redis)
                         THEN [proc[p] EXCEPT !.pc = "mcCompleted"]
                         ELSE [proc[p] EXCEPT !.pc = "callback", !.ret = "false"])
            /\ UNCHANGED <<pending, terminal>>
     ELSE IF job.jobId
       THEN /\ Goes(p, [proc[p] EXCEPT !.pc = "markJobCompleted"])
            /\ Issue(p, MarkJobCompletedWrites(proc[p].indexed, proc[p].failed))
            /\ terminal' = Append(terminal,
                             TerminalCall(p, proc[p].indexed, proc[p].failed))
     ELSE /\ Goes(p, [proc[p] EXCEPT !.pc = "callback"])
          /\ UNCHANGED <<pending, terminal>>
  /\ UNCHANGED <<job, store, effects, posts>>

\* markChunkCompleted: the awaited commands in the order they are sent
NextChunkStepSkipsCounters(pc) ==
  CASE pc = "mcCompleted" -> "mcIncr"
    [] pc = "mcIndexed" -> "mcFailed"
    [] pc = "mcFailed" -> "mcIncr"
NextChunkStep(pc) ==
  CASE pc = "mcCompleted" -> "mcIndexed"
    [] pc = "mcIndexed" -> "mcFailed"
    [] pc = "mcFailed" -> "mcIncr"

\* markChunkCompleted: the three awaited SET commands of the shard's own keys
ChunkSet(p) ==
  /\ proc[p].pc \in {"mcCompleted", "mcIndexed", "mcFailed"}
  /\ store' = CASE proc[p].pc = "mcCompleted" ->
                     [store EXCEPT !.chunk_completed[p] = TRUE]
                [] proc[p].pc = "mcIndexed" ->
                     [store EXCEPT !.chunk_indexed[p] = proc[p].indexed]
                [] proc[p].pc = "mcFailed" ->
                     [store EXCEPT !.chunk_failed[p] = proc[p].failed]
  /\ Goes(p, [proc[p] EXCEPT !.pc = NextChunkStep(proc[p].pc)])
  /\ UNCHANGED <<job, pending, effects, posts, terminal>>

\* markChunkCompleted: INCR chunks_completed, one command of the store
ChunkIncr(p) ==
  /\ proc[p].pc = "mcIncr"
  /\ store' = [store EXCEPT !.chunks_completed = @ + 1]
  /\ Goes(p, [proc[p] EXCEPT !.pc = "mcGetTotal",
                             !.completed = store.chunks_completed + 1])
  /\ UNCHANGED <<job, pending, effects, posts, terminal>>

\* markChunkCompleted: GET chunks_total and the decision to finalize
ChunkGetTotal(p) ==
  /\ proc[p].pc = "mcGetTotal"
  /\ LET total == store.chunks_total
     IN IF total = Nil \/ proc[p].completed = Nil
          THEN Goes(p, [proc[p] EXCEPT !.pc = "callback", !.ret = "false"])
        ELSE IF AllChunksDone(proc[p].completed, total)
          THEN Goes(p, [proc[p] EXCEPT !.pc = "finGetTotal", !.total = total])
        ELSE Goes(p, [proc[p] EXCEPT !.pc = "callback", !.total = total,
                                     !.ret = "false"])
  /\ UNCHANGED <<job, pending, store, effects, posts, terminal>>

\* finalizeJobAfterChunks: GET chunks_total
FinGetTotal(p) ==
  /\ proc[p].pc = "finGetTotal"
  /\ IF store.chunks_total = Nil
       THEN Goes(p, [proc[p] EXCEPT !.pc = "callback", !.ret = "true"])
       ELSE Goes(p, [proc[p] EXCEPT !.pc = "finIndexed", !.k = 1,
                                    !.total = store.chunks_total])
  /\ UNCHANGED <<job, pending, store, effects, posts, terminal>>

\* finalizeJobAfterChunks: the loop over the chunks, GET chunk_k:indexed then
\* GET chunk_k:failed; after the last chunk markJobCompleted with the sums
FinRead(p) ==
  /\ proc[p].pc \in {"finIndexed", "finFailed"}
  /\ LET k == proc[p].k
     IN IF proc[p].pc = "finIndexed"
          THEN /\ Goes(p, [proc[p] EXCEPT !.pc = "finFailed",
                             !.sumIndexed = @ + ParseOrZero(store.chunk_indexed[k])])
               /\ UNCHANGED <<pending, terminal>>
        ELSE LET sumFailed == proc[p].sumFailed + ParseOrZero(store.chunk_failed[k])
             IN IF k < proc[p].total
                  THEN /\ Goes(p, [proc[p] EXCEPT !.pc = "finIndexed", !.k = k + 1,
                                                  !.sumFailed = sumFailed])
                       /\ UNCHANGED <<pending, terminal>>
                  ELSE /\ Goes(p, [proc[p] EXCEPT !.pc = "finWrite",
                                                  !.sumFailed = sumFailed])
                       /\ Issue(p, MarkJobCompletedWrites(proc[p].sumIndexed,
                                                          sumFailed))
                       /\ terminal' = Append(terminal,
                            TerminalCall(p, proc[p].sumIndexed, sumFailed))
  /\ UNCHANGED <<job, store, effects, posts>>

\* await markJobCompleted(...) is over (in main or in finalizeJobAfterChunks,
\* after which markChunkCompleted returns true)
MarkJobCompletedDone(p) ==
  /\ proc[p].pc \in {"markJobCompleted", "finWrite"}
  /\ pending[p] = {}
  /\ Goes(p, [proc[p] EXCEPT !.pc = "callback",
                !.ret = IF proc[p].pc = "finWrite" THEN "true" ELSE @])
  /\ UNCHANGED <<job, pending, store, effects, posts, terminal>>

\* if (args.callbackUrl) { if (!isChunkedJob) await sendCallback(...) }
SendsTerminalCallback == job.callbackUrl /\ ~IsChunkedJob

SendCallback(p) ==
  /\ proc[p].pc = "callback"
  /\ SendsTerminalCallback
  /\ posts' = posts \cup {TerminalPayload(proc[p].indexed, proc[p].failed, job.urls)}
  /\ Did(p, {"callback"})
  /\ Goes(p, [proc[p] EXCEPT !.pc = "sendCallback"])
  /\ UNCHANGED <<job, pending, store, terminal>>

\* process.exit(failed > indexed ? 1 : 0)
Exit(p, ans) ==
  /\ \/ proc[p].pc = "sendCallback"
     \/ proc[p].pc = "callback" /\ ~SendsTerminalCallback
  /\ LET pr == [proc[p] EXCEPT !.pc = "exited",
                  !.exit = ExitCode(proc[p].indexed, proc[p].failed)]
     IN Goes(p, IF proc[p].pc = "sendCallback"
                  THEN Answered(pr, "terminal", ans) ELSE pr)
  /\ UNCHANGED <<job, pending, store, effects, posts, terminal>>

NextJob ==
  \/ \E p \in Procs : Start(p) /\ UNCHANGED <<indexerVars, pipelineVars, libVars>>
  \/ \E p \in Procs : \E w \in pending[p] :
        Land(p, w) /\ UNCHANGED <<indexerVars, pipelineVars, libVars>>
  \/ \E p \in Procs : MarkJobStartedDone(p) /\ UNCHANGED <<indexerVars, pipelineVars, libVars>>
  \/ \E p \in Procs : \E s \in 0..job.urls :
        Scrape(p, s) /\ UNCHANGED <<indexerVars, pipelineVars, libVars>>
  \/ \E p \in Procs : ScrapeThrows(p) /\ UNCHANGED <<indexerVars, pipelineVars, libVars>>
  \/ \E p \in Procs : \E ok \in 0..job.batchSize : \E ans \in PostAnswers :
        FlushBatch(p, ok, ans) /\ UNCHANGED <<indexerVars, pipelineVars, libVars>>
  \/ \E p \in Procs : MarkBatchCompletedDone(p) /\ UNCHANGED <<indexerVars, pipelineVars, libVars>>
  \/ \E p \in Procs : \E ans \in PostAnswers :
        ProgressWritten(p, ans) /\ UNCHANGED <<indexerVars, pipelineVars, libVars>>
  \/ \E p \in Procs : Finalize(p) /\ UNCHANGED <<indexerVars, pipelineVars, libVars>>
  \/ \E p \in Procs : ChunkSet(p) /\ UNCHANGED <<indexerVars, pipelineVars, libVars>>
  \/ \E p \in Procs : ChunkIncr(p) /\ UNCHANGED <<indexerVars, pipelineVars, libVars>>
  \/ \E p \in Procs : ChunkGetTotal(p) /\ UNCHANGED <<indexerVars, pipelineVars, libVars>>
  \/ \E p \in Procs : FinGetTotal(p) /\ UNCHANGED <<indexerVars, pipelineVars, libVars>>
  \/ \E p \in Procs : FinRead(p) /\ UNCHANGED <<indexerVars, pipelineVars, libVars>>
  \/ \E p \in Procs : MarkJobCompletedDone(p) /\ UNCHANGED <<indexerVars, pipelineVars, libVars>>
  \/ \E p \in Procs : SendCallback(p) /\ UNCHANGED <<indexerVars, pipelineVars, libVars>>
  \/ \E p \in Procs : \E ans \in PostAnswers :
        Exit(p, ans) /\ UNCHANGED <<indexerVars, pipelineVars, libVars>>

SpecJob == InitJob /\ [][NextJob]_vars

\* --------------------------- a job whose store may not be configured, and
\* a client asking for the job's status while the job runs
\* getJobStatus reads the keys of the job with one GET each, all sent at once.
\* The GET of status, on which the result depends, and the GET of indexed are
\* kept; failed, total, started_at, completed_at and error are read in the
\* same way as indexed and left out.
StatusKeys == {"status", "indexed"}
NothingRead == [status |-> "none", indexed |-> Nil]
Read(st, got, key) ==
  CASE key = "status" -> [got EXCEPT !.status = st.status]
    [] key = "indexed" -> [got EXCEPT !.indexed = st.indexed]

\* if (!status) return null; otherwise the record with parseInt(x || "0", 10)
JobStatus(got) ==
  IF got.status = "none" THEN [kind |-> "null"]
  ELSE [kind |-> "status", status |-> got.status,
        indexed |-> ParseOrZero(got.indexed)]

\* getJobStatus(jobId) up to its Promise.all: null at once without the
\* store credentials
GetJobStatusCall ==
  /\ reader.pc = "idle"
  /\ reader' = IF Sends(job.redis)
                 THEN [pc |-> "reading", left |-> StatusKeys, got |-> NothingRead,
                       result |-> [kind |-> "none"]]
                 ELSE [pc |-> "returned", left |-> {}, got |-> NothingRead,
                       result |-> [kind |-> "null"]]

\* one GET of getJobStatus is answered by the store
GetLands(key) ==
  /\ reader.pc = "reading"
  /\ key \in reader.left
  /\ reader' = [reader EXCEPT !.left = @ \ {key},
                              !.got = Read(store, reader.got, key)]

\* every GET is answered: getJobStatus returns
GetJobStatusReturns ==
  /\ reader.pc = "reading"
  /\ reader.left = {}
  /\ reader' = [reader EXCEPT !.pc = "returned", !.result = JobStatus(reader.got)]

\* the jobs with a jobId of one URL for each process, in a deployment with
\* or without the two environment variables of the store
InitJobStore ==
  JobStarts([shards : 1..MaxShards, jobId : {TRUE}, callbackUrl : BOOLEAN,
             recorded : BOOLEAN, urls : {1}, batchSize : {1},
             redis : BOOLEAN, endpoint : {"up"}])

NextJobStore ==
  \/ NextJob
  \/ GetJobStatusCall
       /\ UNCHANGED <<indexerVars, pipelineVars, jobVars, credVars, chunkerVars, reindexVars,
                      stats, flushCalls>>
  \/ \E key \in StatusKeys :
       GetLands(key)
       /\ UNCHANGED <<indexerVars, pipelineVars, jobVars, credVars, chunkerVars, reindexVars,
                      stats, flushCalls>>
  \/ GetJobStatusReturns
       /\ UNCHANGED <<indexerVars, pipelineVars, jobVars, credVars, chunkerVars, reindexVars,
                      stats, flushCalls>>

SpecJobStore == InitJobStore /\ [][NextJobStore]_vars

\* ------------------------------------- a job whose callback endpoint fails
\* A single process with a callback URL: it sends the progress callbacks of
\* its indexer and the terminal callback of main, and the endpoint answers
\* each POST as it likes.  (The shards of a sharded job send progress
\* callbacks in the same way and no terminal one.)
InitCallbacks ==
  JobStarts([shards : {1}, jobId : BOOLEAN, callbackUrl : {TRUE},
             recorded : {FALSE}, urls : 1..MaxUrls, batchSize : 1..MaxBatchSize,
             redis : BOOLEAN, endpoint : {"any"}])

NextCallbacks ==
  \/ \E p \in Running : Start(p) /\ UNCHANGED <<indexerVars, pipelineVars, libVars>>
  \/ \E p \in Running : \E w \in pending[p] :
        Land(p, w) /\ UNCHANGED <<indexerVars, pipelineVars, libVars>>
  \/ \E p \in Running :
        MarkJobStartedDone(p) /\ UNCHANGED <<indexerVars, pipelineVars, libVars>>
  \/ \E p \in Running : \E s \in 0..job.urls :
        Scrape(p, s) /\ UNCHANGED <<indexerVars, pipelineVars, libVars>>
  \/ \E p \in Running : ScrapeThrows(p) /\ UNCHANGED <<indexerVars, pipelineVars, libVars>>
  \/ \E p \in Running : \E ok \in 0..job.batchSize : \E ans \in PostAnswers :
        FlushBatch(p, ok, ans) /\ UNCHANGED <<indexerVars, pipelineVars, libVars>>
  \/ \E p \in Running :
        MarkBatchCompletedDone(p) /\ UNCHANGED <<indexerVars, pipelineVars, libVars>>
  \/ \E p \in Running : \E ans \in PostAnswers :
        ProgressWritten(p, ans) /\ UNCHANGED <<indexerVars, pipelineVars, libVars>>
  \/ \E p \in Running : Finalize(p) /\ UNCHANGED <<indexerVars, pipelineVars, libVars>>
  \/ \E p \in Running :
        MarkJobCompletedDone(p) /\ UNCHANGED <<indexerVars, pipelineVars, libVars>>
  \/ \E p \in Running : SendCallback(p) /\ UNCHANGED <<indexerVars, pipelineVars, libVars>>
  \/ \E p \in Running : \E ans \in PostAnswers :
        Exit(p, ans) /\ UNCHANGED <<indexerVars, pipelineVars, libVars>>

SpecCallbacks == InitCallbacks /\ [][NextCallbacks]_vars

\* ------------------------------ the vector-store credentials of a process
\* cachedCredentials and dynamicCredentials are module-level state of
\* upstash-indexer.ts; getCredentials is called by validateCredentials,
\* upsertVectors and getIndexStats.  The environment does not change while
\* the process runs.  An unset environment variable and an empty one are both
\* falsy and are both written "".
Cred(url, token) == [kind |-> "cred", url |-> url, token |-> token]
Raised == [kind |-> "raised"]
DynamicValues == {Cred("https://byok-1", "t1"), Cred("https://byok-2", "t2")}
EnvValues == [url : {"", "https://env"}, token : {"", "te"}]

\* setDynamicCredentials(credentials): cachedCredentials = null
CacheKeptAfterSet(cached) == cached
CacheAfterSet(cached) == Null

SetDynamicCredentials(c) ==
  /\ dynamicCredentials' = c
  /\ cachedCredentials' = CacheAfterSet(cachedCredentials)
  /\ lastSet' = c
  /\ UNCHANGED <<env, resolved>>

\* which of its three sources getCredentials() takes its result from
ResolvedFrom ==
  GetCredentials(IF cachedCredentials = Null THEN "none" ELSE "cached",
                 dynamicCredentials # Null, env.url # "", env.token # "")

\* the object getCredentials() returns, or the Error it throws
CredentialsFrom(from) ==
  CASE from = "cached" -> cachedCredentials
    [] from = "dynamic" -> Cred(dynamicCredentials.url, dynamicCredentials.token)
    [] from = "env" -> Cred(env.url, env.token)
    [] OTHER -> Raised

\* one call of getCredentials(): a result is cached, a throw leaves the cache
GetCredentialsCall ==
  /\ Len(resolved) < MaxResolutions
  /\ LET got == CredentialsFrom(ResolvedFrom)
     IN /\ cachedCredentials' = IF got = Raised THEN cachedCredentials ELSE got
        /\ resolved' = Append(resolved, [after |-> lastSet, got |-> got])
  /\ UNCHANGED <<dynamicCredentials, env, lastSet>>

InitCredentials ==
  /\ options = [batchSize |-> 1, onProgress |-> TRUE, jobId |-> FALSE,
                callbackUrl |-> FALSE]
  /\ callerAwaits = TRUE
  /\ IndexerFresh
  /\ PipelineFresh
  /\ NoJob
  /\ NoChunker
  /\ NoDocument
  /\ NoReader
  /\ NoStats
  /\ NoFlushCalls
  /\ cachedCredentials = Null
  /\ dynamicCredentials = Null
  /\ env \in EnvValues
  /\ lastSet = [kind |-> "never"]
  /\ resolved = <<>>

NextCredentials ==
  \/ \E c \in DynamicValues \cup {Null} :
        SetDynamicCredentials(c)
          /\ UNCHANGED <<indexerVars, pipelineVars, jobVars, chunkerVars, reindexVars, clientVars>>
  \/ GetCredentialsCall
          /\ UNCHANGED <<indexerVars, pipelineVars, jobVars, chunkerVars, reindexVars, clientVars>>

SpecCredentials == InitCredentials /\ [][NextCredentials]_vars

\* ------------------------------------------------------------ chunkContent
\* A string is the sequence of its characters; positions are counted from 0
\* as in the source.  chunkSize and chunkOverlap are integers.
maxContentLength == 100000
maxChunksPerPage == 50
minChunkLength == 50

SEMANTIC_SEPARATORS ==
  << <<"\n", "\n">>, <<"\n">>, <<".", " ">>, <<"!", " ">>, <<"?", " ">>,
     <<";", " ">>, <<",", " ">>, <<" ">> >>

Least(a, b) == IF a < b THEN a ELSE b
Greatest(a, b) == IF a > b THEN a ELSE b

\* String.prototype.trim(): white space is dropped at both ends
IsSpace(c) == c \in {" ", "\n", "\t", "\r"}
Trim(s) ==
  IF \A i \in 1..Len(s) : IsSpace(s[i]) THEN <<>>
  ELSE LET first == CHOOSE i \in 1..Len(s) :
                      ~IsSpace(s[i]) /\ \A j \in 1..(i - 1) : IsSpace(s[j])
           back == CHOOSE d \in 0..(Len(s) - 1) :
                     ~IsSpace(s[Len(s) - d]) /\ \A e \in 0..(d - 1) : IsSpace(s[Len(s) - e])
       IN SubSeq(s, first, Len(s) - back)

\* String.prototype.slice(a, b): a negative index counts from the end, an
\* index past the end is the end, and b <= a gives the empty string
SliceIndex(s, i) == IF i < 0 THEN Greatest(Len(s) + i, 0) ELSE Least(i, Len(s))
Slice(s, a, b) == SubSeq(s, SliceIndex(s, a) + 1, SliceIndex(s, b))

\* String.prototype.lastIndexOf(sep, from): the greatest position <= from at
\* which sep begins, or -1
BeginsAt(s, sep, i) == \A k \in 1..Len(sep) : s[i + k] = sep[k]
LastIndexOf(s, sep, from) ==
  LET last == Least(from, Len(s) - Len(sep))
  IN IF \A i \in 0..last : ~BeginsAt(s, sep, i) THEN -1
     ELSE last - (CHOOSE d \in 0..last :
                    BeginsAt(s, sep, last - d)
                      /\ \A e \in 0..(d - 1) : ~BeginsAt(s, sep, last - e))

\* breakPoint > minBreakPosition, where minBreakPosition = currentIndex + chunkSize * 0.5
BreaksLateEnough(breakPoint, cur, size) == 2 * breakPoint > 2 * cur + size

\* the for loop over SEMANTIC_SEPARATORS: bestBreak of the first separator
\* whose last occurrence lies after minBreakPosition, or -1
BestBreak(s, cur, chunkEnd, size) ==
  LET found == {k \in 1..Len(SEMANTIC_SEPARATORS) :
                  BreaksLateEnough(LastIndexOf(s, SEMANTIC_SEPARATORS[k], chunkEnd),
                                   cur, size)}
  IN IF found = {} THEN -1
     ELSE LET k == CHOOSE k1 \in found : \A k2 \in found : k1 <= k2
          IN LastIndexOf(s, SEMANTIC_SEPARATORS[k], chunkEnd)
               + Len(SEMANTIC_SEPARATORS[k])

\* chunkEnd of the window that starts at cur
ChunkEnd(s, cur, size) ==
  LET tentative == Least(cur + size, Len(s))
      bestBreak == BestBreak(s, cur, tentative, size)
  IN IF tentative < Len(s) /\ bestBreak > cur THEN bestBreak ELSE tentative

\* chunk.length >= minChunkLength (and limitedContent.length >= minChunkLength)
KeepsAnyChunk(chunk) == Len(chunk) >= 1
KeepsChunk(chunk) == Len(chunk) >= minChunkLength

\* const nextIndex = chunkEnd - chunkOverlap, and the progress guard
NextIndexUnguarded(cur, chunkEnd, overlap) == chunkEnd - overlap
NextStart(cur, chunkEnd, overlap) ==
  IF chunkEnd - overlap <= cur THEN chunkEnd ELSE chunkEnd - overlap

\* chunks.length >= maxChunksPerPage
TooManyChunks(n) == n >= maxChunksPerPage

\* chunkContent from its call to the while loop: trim, truncate, and the
\* early return of a text that fits one chunk
ChunkContentCall ==
  /\ cpc = "idle"
  /\ LET limited == Slice(Trim(content), 0, maxContentLength)
     IN /\ limitedContent' = limited
        /\ currentIndex' = 0
        /\ IF Len(limited) <= chunkSize
             THEN /\ cpc' = "returned"
                  /\ chunkList' = IF KeepsChunk(limited) THEN <<limited>> ELSE <<>>
                  /\ ranges' = IF KeepsChunk(limited)
                                 THEN <<[from |-> 0, to |-> Len(limited)]>> ELSE <<>>
             ELSE /\ cpc' = "loop"
                  /\ chunkList' = <<>>
                  /\ ranges' = <<>>
  /\ UNCHANGED <<content, chunkSize, chunkOverlap>>

\* one iteration of the while loop, up to the next test of its condition
ChunkContentIteration ==
  /\ cpc = "loop"
  /\ LET chunkEnd == ChunkEnd(limitedContent, currentIndex, chunkSize)
         chunk == Trim(Slice(limitedContent, currentIndex, chunkEnd))
         pushed == IF KeepsChunk(chunk) THEN Append(chunkList, chunk) ELSE chunkList
         next == NextStart(currentIndex, chunkEnd, chunkOverlap)
     IN /\ chunkList' = pushed
        /\ ranges' = IF KeepsChunk(chunk)
                       THEN Append(ranges, [from |-> currentIndex, to |-> chunkEnd])
                       ELSE ranges
        /\ currentIndex' = next
        /\ cpc' = IF TooManyChunks(Len(pushed)) \/ ~(next < Len(limitedContent))
                    THEN "returned" ELSE "loop"
  /\ UNCHANGED <<content, chunkSize, chunkOverlap, limitedContent>>

\* ---- the texts and sizes chunkContent is called with
Letters(n) == [i \in 1..n |-> "a"]
WordLengths == {0, 40, 60}
WordEnds == {<<>>, <<" ">>, <<".", " ">>, <<"\n", "\n">>}
Pieces == {Letters(n) \o e : n \in WordLengths, e \in WordEnds}

RECURSIVE TextsOf(_)
TextsOf(k) ==
  IF k = 0 THEN {<<>>}
  ELSE TextsOf(k - 1) \cup {t \o p : t \in TextsOf(k - 1), p \in Pieces}

\* chunkSize below, at and above the minimum chunk length; chunkOverlap
\* zero, below chunkSize, equal to it and above it
Sizes ==
  {[chunkSize |-> 60, chunkOverlap |-> 0], [chunkSize |-> 60, chunkOverlap |-> 20],
   [chunkSize |-> 60, chunkOverlap |-> 60], [chunkSize |-> 60, chunkOverlap |-> 90],
   [chunkSize |-> 100, chunkOverlap |-> 30], [chunkSize |-> 40, chunkOverlap |-> 10]}

\* chunk("short text", 1000, 200)
ShortText == <<"s", "h", "o", "r", "t", " ", "t", "e", "x", "t">>
Defaults == [chunkSize |-> 1000, chunkOverlap |-> 200]

\* a text of paragraphs: n paragraphs of len letters, each ended by "\n\n"
RECURSIVE Paragraphs(_, _)
Paragraphs(n, len) ==
  IF n = 0 THEN <<>> ELSE Letters(len) \o <<"\n", "\n">> \o Paragraphs(n - 1, len)
\* 2,500 characters: paragraphs of 250 or of 125, the last one two longer
\* in place of its paragraph break
ParagraphText(n, len) == Paragraphs(n - 1, len) \o Letters(len + 2)
ScenarioTexts == {ParagraphText(10, 248), ParagraphText(20, 123)}

\* a text long enough for more than maxChunksPerPage windows
LongText == Letters(120)
LongSizes ==
  {[chunkSize |-> 51, chunkOverlap |-> 50], [chunkSize |-> 1, chunkOverlap |-> 0],
   [chunkSize |-> 1, chunkOverlap |-> 5]}

Input(text, size) ==
  [content |-> text, chunkSize |-> size.chunkSize, chunkOverlap |-> size.chunkOverlap]
ChunkerInputs ==
  {Input(t, z) : t \in TextsOf(MaxPieces), z \in Sizes}
    \cup {Input(t, Defaults) : t \in ScenarioTexts \cup {ShortText}}
    \cup {Input(LongText, z) : z \in LongSizes}

InitChunker ==
  /\ options = [batchSize |-> 1, onProgress |-> TRUE, jobId |-> FALSE,
                callbackUrl |-> FALSE]
  /\ callerAwaits = TRUE
  /\ IndexerFresh
  /\ PipelineFresh
  /\ NoJob
  /\ NoCredentials
  /\ NoDocument
  /\ NoReader
  /\ NoStats
  /\ NoFlushCalls
  /\ \E in \in ChunkerInputs :
       /\ content = in.content
       /\ chunkSize = in.chunkSize
       /\ chunkOverlap = in.chunkOverlap
  /\ limitedContent = <<>>
  /\ currentIndex = 0
  /\ chunkList = <<>>
  /\ ranges = <<>>
  /\ cpc = "idle"

NextChunker ==
  \/ ChunkContentCall /\ UNCHANGED <<indexerVars, pipelineVars, jobVars, credVars, reindexVars, clientVars>>
  \/ ChunkContentIteration /\ UNCHANGED <<indexerVars, pipelineVars, jobVars, credVars, reindexVars, clientVars>>

SpecChunker == InitChunker /\ [][NextChunker]_vars

\* ------------------------------------ one document handed to indexContent
\* twice: the same url, description, content and brandSlug, the same
\* chunkSize and chunkOverlap.  Within a call the chunker runs first; then
\* each chunk is sent under its id and the call waits for the answer.
Alphanumeric ==
  {"a", "b", "c", "d", "e", "f", "g", "h", "i", "j", "k", "l", "m", "n", "o",
   "p", "q", "r", "s", "t", "u", "v", "w", "x", "y", "z", "A", "B", "C", "D",
   "E", "F", "G", "H", "I", "J", "K", "L", "M", "N", "O", "P", "Q", "R", "S",
   "T", "U", "V", "W", "X", "Y", "Z", "0", "1", "2", "3", "4", "5", "6", "7",
   "8", "9"}

\* a number in a template literal: its decimal digits
Digit(d) == <<"0", "1", "2", "3", "4", "5", "6", "7", "8", "9">>[d + 1]
RECURSIVE Decimal(_)
Decimal(n) == IF n < 10 THEN <<Digit(n)>> ELSE Decimal(n \div 10) \o <<Digit(n % 10)>>

\* url.replace(/https?:\/\//, ""): the first "http://" or "https://" goes
Http == <<"h", "t", "t", "p", ":", "/", "/">>
Https == <<"h", "t", "t", "p", "s", ":", "/", "/">>
SchemeAt(url, i) ==
  IF i + Len(Http) <= Len(url) /\ BeginsAt(url, Http, i) THEN Len(Http)
  ELSE IF i + Len(Https) <= Len(url) /\ BeginsAt(url, Https, i) THEN Len(Https)
  ELSE 0
WithoutScheme(url) ==
  LET at == {i \in 0..(Len(url) - 1) : SchemeAt(url, i) > 0}
  IN IF at = {} THEN url
     ELSE LET i == CHOOSE i1 \in at : \A i2 \in at : i1 <= i2
          IN Slice(url, 0, i) \o Slice(url, i + SchemeAt(url, i), Len(url))

\* .replace(/[^a-zA-Z0-9]/g, "-")
Dashed(s) == [i \in 1..Len(s) |-> IF s[i] \in Alphanumeric THEN s[i] ELSE "-"]

\* generateChunkId: `${brandSlug}_${urlHash}_chunk_${chunkIndex}`
GenerateChunkIdCounting(url, chunkIndex, brandSlug) ==
  brandSlug \o <<"_">> \o Slice(Dashed(WithoutScheme(url)), 0, 50)
    \o <<"_", "c", "h", "u", "n", "k", "_">>
    \o Decimal(chunkIndex + (run - 1) * Len(chunkList))
GenerateChunkId(url, chunkIndex, brandSlug) ==
  brandSlug \o <<"_">> \o Slice(Dashed(WithoutScheme(url)), 0, 50)
    \o <<"_", "c", "h", "u", "n", "k", "_">> \o Decimal(chunkIndex)

\* [content.description, content.content].filter(Boolean).join("\n\n")
FullContent(description, body) ==
  IF description = <<>> THEN body
  ELSE IF body = <<>> THEN description
  ELSE description \o <<"\n", "\n">> \o body

\* the metadata of the vector of chunk i: url, chunkIndex and totalChunks
\* always (title, brandSlug, timestamp and contentPreview are set in the same
\* way and left out);
\*   if (i === 0 && content.images && content.images.length > 0)
\*     images = content.images.slice(0, 5), imageCount = content.images.length
\*   if (content.description) description = content.description
\* A field that is not set is written Absent; images is the length of the
\* list kept.
Absent == [kind |-> "absent"]
Field(v) == [kind |-> "set", val |-> v]
ImageLimit == 5
ImagesOnEveryChunk(i, images) == images > 0
CarriesImages(i, images) == i = 0 /\ images > 0
CarriesDescription(i, description) == description # <<>>
Metadata(doc, i, total) ==
  [url |-> doc.url, chunkIndex |-> i, totalChunks |-> total,
   images |-> IF CarriesImages(i, doc.images)
                THEN Field(IF doc.images < ImageLimit THEN doc.images ELSE ImageLimit)
                ELSE Absent,
   imageCount |-> IF CarriesImages(i, doc.images) THEN Field(doc.images) ELSE Absent,
   description |-> IF CarriesDescription(i, doc.description)
                     THEN Field(doc.description) ELSE Absent]

\* what indexContent returns
IndexedAll == [success |-> TRUE, chunksIndexed |-> Len(chunkList)]
IndexFailed == [success |-> FALSE, chunksIndexed |-> 0]
Returning(res) ==
  /\ results' = Append(results, res)
  /\ afterFirst' = IF run = 1 THEN records' ELSE afterFirst

\* chunks.length === 0: nothing to send
NoValidChunks ==
  /\ cpc = "returned"
  /\ Len(results) < run
  /\ Len(chunkList) = 0
  /\ UNCHANGED <<document, run, nextChunk, idLog, records, vectorLog, chunkerVars>>
  /\ Returning(IndexedAll)

\* one turn of the for loop: the vector of chunk i is sent under its id and
\* the answer awaited; a failure is caught and ends the call
UpsertChunk(out) ==
  /\ cpc = "returned"
  /\ Len(results) < run
  /\ nextChunk < Len(chunkList)
  /\ LET id == GenerateChunkId(document.url, nextChunk, document.brandSlug)
     IN /\ idLog' = [idLog EXCEPT ![run] = Append(@, id)]
        /\ vectorLog' = Append(vectorLog,
                           [run |-> run, id |-> id,
                            metadata |-> Metadata(document, nextChunk,
                                                  Len(chunkList))])
        /\ records' = IF out \in {"ok", "timeoutStored"}
                        THEN records \cup {id} ELSE records
  /\ IF out = "ok"
       THEN /\ nextChunk' = nextChunk + 1
            /\ IF nextChunk + 1 = Len(chunkList)
                 THEN Returning(IndexedAll)
                 ELSE UNCHANGED <<results, afterFirst>>
       ELSE /\ Returning(IndexFailed)
            /\ UNCHANGED nextChunk
  /\ UNCHANGED <<document, run, chunkerVars>>

\* the same document is handed to indexContent again
IndexAgain ==
  /\ run = 1
  /\ Len(results) = 1
  /\ run' = 2
  /\ nextChunk' = 0
  /\ limitedContent' = <<>>
  /\ currentIndex' = 0
  /\ chunkList' = <<>>
  /\ ranges' = <<>>
  /\ cpc' = "idle"
  /\ UNCHANGED <<document, results, idLog, records, afterFirst, vectorLog,
                 content, chunkSize, chunkOverlap>>

\* ---- the documents
Urls ==
  {Https \o <<"a", ".", "i", "o", "/", "p">>,
   Http \o <<"a", ".", "i", "o", "/", "p", "?", "x", "=", "1">>,
   Https \o <<"a", ".", "i", "o", "/">> \o Letters(60)}
BrandSlugs == {<<"a", "c", "m", "e">>, <<"m", "y", "_", "b">>}
Descriptions == {<<>>, Letters(20)}
Bodies ==
  {Letters(30), Letters(60), Letters(60) \o <<".", " ">> \o Letters(60),
   Letters(40) \o <<"\n", "\n">> \o Letters(60) \o <<" ">> \o Letters(60)}
ImageCounts == {0, 7}
Documents ==
  [url : Urls, description : Descriptions, content : Bodies, brandSlug : BrandSlugs,
   images : ImageCounts]
IndexSizes == {[chunkSize |-> 60, chunkOverlap |-> 20], Defaults}

InitReindex ==
  /\ options = [batchSize |-> 1, onProgress |-> TRUE, jobId |-> FALSE,
                callbackUrl |-> FALSE]
  /\ callerAwaits = TRUE
  /\ IndexerFresh
  /\ PipelineFresh
  /\ NoJob
  /\ NoCredentials
  /\ NoReader
  /\ NoStats
  /\ NoFlushCalls
  /\ document \in Documents
  /\ run = 1
  /\ nextChunk = 0
  /\ results = <<>>
  /\ idLog = <<<<>>, <<>>>>
  /\ records = {}
  /\ afterFirst = {}
  /\ vectorLog = <<>>
  /\ content = FullContent(document.description, document.content)
  /\ \E z \in IndexSizes : chunkSize = z.chunkSize /\ chunkOverlap = z.chunkOverlap
  /\ limitedContent = <<>>
  /\ currentIndex = 0
  /\ chunkList = <<>>
  /\ ranges = <<>>
  /\ cpc = "idle"

NextReindex ==
  \/ ChunkContentCall
       /\ UNCHANGED <<indexerVars, pipelineVars, jobVars, credVars, reindexVars, clientVars>>
  \/ ChunkContentIteration
       /\ UNCHANGED <<indexerVars, pipelineVars, jobVars, credVars, reindexVars, clientVars>>
  \/ NoValidChunks /\ UNCHANGED <<indexerVars, pipelineVars, jobVars, credVars, clientVars>>
  \/ \E out \in UpsertOutcomes :
       UpsertChunk(out) /\ UNCHANGED <<indexerVars, pipelineVars, jobVars, credVars, clientVars>>
  \/ IndexAgain /\ UNCHANGED <<indexerVars, pipelineVars, jobVars, credVars, clientVars>>

SpecReindex == InitReindex /\ [][NextReindex]_vars

\* ------------------------------------ two pages of one brand, one store
\* indexContent is called on a page and then on another page of the same
\* brand, with another URL and the same text
IndexOther(url) ==
  /\ run = 1
  /\ Len(results) = 1
  /\ url # document.url
  /\ document' = [document EXCEPT !.url = url]
  /\ run' = 2
  /\ nextChunk' = 0
  /\ limitedContent' = <<>>
  /\ currentIndex' = 0
  /\ chunkList' = <<>>
  /\ ranges' = <<>>
  /\ cpc' = "idle"
  /\ UNCHANGED <<results, idLog, records, afterFirst, vectorLog,
                 content, chunkSize, chunkOverlap>>

\* the URLs of the pages: with one scheme or the other, with a query string
\* or a longer path, and long ones that differ late
PageUrls ==
  {Https \o <<"a", ".", "i", "o", "/", "p">>,
   Http \o <<"a", ".", "i", "o", "/", "p">>,
   Https \o <<"a", ".", "i", "o", "/", "p", "?", "x">>,
   Https \o <<"a", ".", "i", "o", "/", "p", "/", "x">>,
   Https \o <<"a", ".", "i", "o", "/", "q">>,
   Https \o <<"a", ".", "i", "o", "/">> \o Letters(60) \o <<"/", "1">>,
   Https \o <<"a", ".", "i", "o", "/">> \o Letters(60) \o <<"/", "2">>}
Pages ==
  [url : PageUrls, description : {<<>>},
   content : {Letters(30), Letters(60) \o <<".", " ">> \o Letters(60)},
   brandSlug : {<<"a", "c", "m", "e">>}, images : {0}]

InitTwoPages ==
  /\ options = [batchSize |-> 1, onProgress |-> TRUE, jobId |-> FALSE,
                callbackUrl |-> FALSE]
  /\ callerAwaits = TRUE
  /\ IndexerFresh
  /\ PipelineFresh
  /\ NoJob
  /\ NoCredentials
  /\ NoReader
  /\ NoStats
  /\ NoFlushCalls
  /\ document \in Pages
  /\ run = 1
  /\ nextChunk = 0
  /\ results = <<>>
  /\ idLog = <<<<>>, <<>>>>
  /\ records = {}
  /\ afterFirst = {}
  /\ vectorLog = <<>>
  /\ content = FullContent(document.description, document.content)
  /\ chunkSize = 60
  /\ chunkOverlap = 20
  /\ limitedContent = <<>>
  /\ currentIndex = 0
  /\ chunkList = <<>>
  /\ ranges = <<>>
  /\ cpc = "idle"

NextTwoPages ==
  \/ ChunkContentCall
       /\ UNCHANGED <<indexerVars, pipelineVars, jobVars, credVars, reindexVars, clientVars>>
  \/ ChunkContentIteration
       /\ UNCHANGED <<indexerVars, pipelineVars, jobVars, credVars, reindexVars, clientVars>>
  \/ NoValidChunks /\ UNCHANGED <<indexerVars, pipelineVars, jobVars, credVars, clientVars>>
  \/ \E out \in UpsertOutcomes :
       UpsertChunk(out) /\ UNCHANGED <<indexerVars, pipelineVars, jobVars, credVars, clientVars>>
  \/ \E url \in PageUrls :
       IndexOther(url) /\ UNCHANGED <<indexerVars, pipelineVars, jobVars, credVars, clientVars>>

SpecTwoPages == InitTwoPages /\ [][NextTwoPages]_vars

\* ------------------------------------------------ vocabulary of the claims
BatchDocs(k) == Range(flushLog[k])
MergedDocs == UNION {BatchDocs(k) : k \in merged}
UpTo(k) == UNION {BatchDocs(j) : j \in 1..k}
OkIn(S) == {d \in S : outcome[d] = "ok"}
FailedIn(S) == {d \in S : outcome[d] = "failed"}
FlushInProgress ==
  \E c \in 1..Len(calls) : calls[c].pc # "next"
Quiet == calls = <<>>
FromTo(a, b) == [j \in 1..(b - a + 1) |-> a + j - 1]
Count(s, d) == Cardinality({j \in 1..Len(s) : s[j] = d})

\* C1: within a flush a failing document (success=false or an exception)
\* does not stop the batch: every document of a finished batch was attempted,
\* and the finished batches added exactly their failed documents to
\* totalFailed and exactly their succeeded documents to totalIndexed.
C1_FailureIsolated ==
  /\ \A k \in merged : \A d \in BatchDocs(k) : outcome[d] # "none" /\ handed[d] >= 1
  /\ totalFailed = Cardinality(FailedIn(MergedDocs))
  /\ totalIndexed = Cardinality(OkIn(MergedDocs))

\* a finished batch of two whose first document failed and whose second succeeded
C1_Witness ==
  \E k \in merged :
    /\ Len(flushLog[k]) >= 2
    /\ outcome[flushLog[k][1]] = "failed"
    /\ outcome[flushLog[k][2]] = "ok"
    /\ totalFailed >= 1 /\ totalIndexed >= 1

\* C2: with an awaiting caller and no explicit flush() so far, fewer than
\* batchSize calls of add leave batchNumber at 0, everything pending and no
\* snapshot delivered; exactly batchSize calls give exactly one flush cycle,
\* numbered 1; a cycle started by flush() takes the fewer-than-batchSize
\* documents that were pending.
C2_BatchThreshold ==
  /\ (explicit = {} /\ added < options.batchSize) =>
        /\ batchNumber = 0 /\ flushLog = <<>>
        /\ getStats.batchCount = 0 /\ getStats.pendingCount = added
        /\ progressLog = <<>> /\ redisLog = <<>> /\ httpLog = <<>>
  /\ (explicit = {} /\ added = options.batchSize) =>
        /\ batchNumber = 1 /\ Len(flushLog) = 1
        /\ Len(flushLog[1]) = options.batchSize
        /\ Len(progressLog) <= 1
        /\ \A j \in 1..Len(progressLog) : progressLog[j].batchNumber = 1
  /\ (explicit = {1}) =>
        /\ Len(flushLog[1]) \in 1..(options.batchSize - 1)
        /\ batchNumber >= 1

\* batchSize 2, two awaited adds, the call settled: one flush, number 1
C2_Witness ==
  /\ callerAwaits /\ Quiet /\ explicit = {}
  /\ options.batchSize = 2 /\ added = 2
  /\ batchNumber = 1 /\ 1 \in merged

\* the documents were fed by add/addMultiple and flush() came, if at all, last
FedThenFlushed ==
  \/ explicit = {}
  \/ explicit = {Len(flushLog)} /\ buffer = <<>>

\* C3: for n documents fed through awaited add/addMultiple calls and then
\* flush(), with batchSize b: automatic batch k holds exactly the documents
\* (k-1)b+1 .. kb in arrival order, the n mod b others stay pending until
\* flush() and form the last batch, and the final batchCount is ceil(n/b).
C3_BatchesOfB ==
  FedThenFlushed =>
    LET b == options.batchSize IN
    /\ \A k \in 1..Len(flushLog) :
         IF k \in explicit
           THEN /\ flushLog[k] = FromTo((k - 1) * b + 1, added)
                /\ Len(flushLog[k]) = added % b
                /\ Len(flushLog[k]) > 0
           ELSE flushLog[k] = FromTo((k - 1) * b + 1, k * b)
    /\ explicit = {} => /\ buffer = FromTo(Len(flushLog) * b + 1, added)
                        /\ Len(buffer) = added % b
    /\ (Quiet /\ buffer = <<>>) => getStats.batchCount = (added + b - 1) \div b

\* b = 2, n = 3: batches <<1,2>> and, by flush(), <<3>>
C3_Witness ==
  /\ callerAwaits /\ Quiet /\ options.batchSize = 2
  /\ added = 3 /\ explicit = {2}
  /\ flushLog = << <<1, 2>>, <<3>> >>
  /\ batchNumber = 2

\* C4 as stated: after any sequence of awaited add/flush calls
\* totalIndexed + totalFailed equals the number of documents passed so far.
C4_Original ==
  (callerAwaits /\ Quiet) =>
     getStats.totalIndexed + getStats.totalFailed = passed

\* C4 amended: after any sequence of awaited add/flush calls
\* totalIndexed + totalFailed equals the number of documents passed so far
\* minus the documents still pending in the buffer, hence the number passed
\* once flush() has drained the buffer.
C4_CountedOrPending ==
  (callerAwaits /\ Quiet) =>
     /\ getStats.totalIndexed + getStats.totalFailed = passed - Len(buffer)
     /\ buffer = <<>> => getStats.totalIndexed + getStats.totalFailed = passed

\* three documents passed, all counted, some indexed and some failed
C4_Witness ==
  /\ callerAwaits /\ Quiet /\ passed = 3 /\ buffer = <<>>
  /\ totalIndexed >= 1 /\ totalFailed >= 1
  /\ totalIndexed + totalFailed = 3

\* C5: in every reachable state totalIndexed + totalFailed is at most the
\* number of documents passed to add/addMultiple so far.
C5_NeverOvercounts ==
  totalIndexed + totalFailed <= passed

\* overlapping calls, all documents passed so far counted
C5_Witness ==
  /\ ~callerAwaits /\ passed = 3
  /\ totalIndexed + totalFailed = passed
  /\ totalFailed >= 1

\* C6: batchNumber starts at 0 and grows by exactly 1 per flush cycle and by
\* nothing else: batchNumber, and so getStats().batchCount, always equals the
\* number of flush cycles started so far, and the cycles in flight carry
\* distinct numbers.
C6_BatchNumberCountsFlushes ==
  /\ batchNumber = Len(flushLog)
  /\ getStats.batchCount = Len(flushLog)
  /\ \A c, e \in 1..Len(calls) :
       (c # e /\ calls[c].pc # "next" /\ calls[e].pc # "next")
          => calls[c].loc.flushNo # calls[e].loc.flushNo

\* two flush cycles in flight at once, a third one already finished
C6_Witness ==
  /\ batchNumber = 3
  /\ Len(calls) = 2
  /\ \A c \in 1..Len(calls) : calls[c].pc # "next"

\* the cumulative totals as of the end of batch k
TotalsAsOf(k) ==
  LET S == UpTo(k) IN
  [indexed |-> Cardinality(OkIn(S)),
   failed |-> Cardinality(FailedIn(S)),
   chunks |-> SumOver(chunks, OkIn(S))]

\* C7: with an awaiting caller the k-th snapshot handed to onProgress, the
\* k-th updateJobProgress call and the k-th progress POST are those of batch
\* k (batchNumber k), each carries the cumulative totals as of the end of
\* batch k, and indexedCount, failedCount and chunksIndexed never decrease
\* from one snapshot to the next.
C7_SnapshotsInOrder ==
  /\ \A k \in 1..Len(progressLog) :
       /\ progressLog[k].batchNumber = k
       /\ [indexed |-> progressLog[k].indexedCount,
           failed |-> progressLog[k].failedCount,
           chunks |-> progressLog[k].chunksIndexed] = TotalsAsOf(k)
       /\ k > 1 => /\ progressLog[k - 1].indexedCount <= progressLog[k].indexedCount
                   /\ progressLog[k - 1].failedCount <= progressLog[k].failedCount
                   /\ progressLog[k - 1].chunksIndexed <= progressLog[k].chunksIndexed
  /\ \A k \in 1..Len(redisLog) :
       /\ redisLog[k] = TotalsAsOf(k)
       /\ k > 1 => /\ redisLog[k - 1].indexed <= redisLog[k].indexed
                   /\ redisLog[k - 1].failed <= redisLog[k].failed
                   /\ redisLog[k - 1].chunks <= redisLog[k].chunks
  /\ \A k \in 1..Len(httpLog) :
       /\ httpLog[k].batchNumber = k
       /\ LET t == TotalsAsOf(k)
          IN httpLog[k].indexed = t.indexed /\ httpLog[k].failed = t.failed
       /\ k > 1 => /\ httpLog[k - 1].indexed <= httpLog[k].indexed
                   /\ httpLog[k - 1].failed <= httpLog[k].failed

\* two batches reported to all three sinks, the second with larger totals
C7_Witness ==
  /\ callerAwaits
  /\ Len(progressLog) = 2 /\ Len(redisLog) = 2 /\ Len(httpLog) = 2
  /\ progressLog[1].indexedCount = 1
  /\ progressLog[2].indexedCount = 2
  /\ progressLog[2].chunksIndexed > progressLog[1].chunksIndexed
  /\ progressLog[2].failedCount = 1

\* C8: when onProgress throws during a flush, no call is rejected, the
\* cumulative counters and batchNumber are what the documents' results alone
\* determine, the sinks after onProgress are still served for every batch,
\* and later batches are flushed and counted as usual.
C8_ProgressCallbackIsolated ==
  threw # {} =>
    /\ rejected = 0
    /\ totalIndexed = Cardinality(OkIn(MergedDocs))
    /\ totalFailed = Cardinality(FailedIn(MergedDocs))
    /\ totalChunks = SumOver(chunks, OkIn(MergedDocs))
    /\ batchNumber = Len(flushLog)
    /\ Quiet =>
         /\ merged = 1..Len(flushLog)
         /\ totalIndexed + totalFailed = passed - Len(buffer)
         /\ Len(progressLog) = batchNumber
         /\ options.jobId => Len(redisLog) = batchNumber
         /\ options.callbackUrl => Len(httpLog) = batchNumber

\* onProgress threw in batch 1, and batch 2 was flushed and counted afterwards
C8_Witness ==
  /\ 1 \in threw /\ 2 \notin threw
  /\ Quiet /\ merged = {1, 2}
  /\ options.jobId /\ options.callbackUrl
  /\ Len(redisLog) = 2
  /\ totalIndexed >= 2

\* where a passed document is: how often it occurs in the buffer, in the
\* lists addMultiple calls still hold, and in the batches of the flush cycles
InBuffer(d) == Count(buffer, d)
InRest(d) == Cardinality({c \in 1..Len(calls) : Count(calls[c].rest, d) > 0})
InBatches(d) == Cardinality({k \in 1..Len(flushLog) : Count(flushLog[k], d) > 0})

\* a document of a flush cycle was handed to indexContent once the loop of
\* that cycle has reached it
Reached(d) ==
  \E k \in 1..Len(flushLog) :
    /\ d \in BatchDocs(k)
    /\ \/ k \in merged
       \/ \E c \in 1..Len(calls) :
            /\ calls[c].pc = "index"
            /\ calls[c].loc.flushNo = k
            /\ \E j \in 1..calls[c].loc.i : calls[c].loc.batch[j] = d

\* C9: a flush takes its batch as a snapshot and empties the buffer before
\* indexing starts: the batch of a cycle in flight stays what it was at the
\* snapshot and shares no document with the buffer, whatever is added
\* meanwhile; under every interleaving each passed document is in exactly one
\* place, is handed to indexContent at most once, exactly when its cycle's
\* loop has reached it, and exactly once when all calls have settled and the
\* buffer is empty.
C9_SnapshotExactlyOnce ==
  /\ \A c \in 1..Len(calls) :
       calls[c].pc # "next" =>
         /\ calls[c].loc.batch = flushLog[calls[c].loc.flushNo]
         /\ Range(calls[c].loc.batch) \cap Range(buffer) = {}
  /\ \A d \in 1..passed :
       /\ InBuffer(d) + InRest(d) + InBatches(d) = 1
       /\ \A k \in 1..Len(flushLog) : Count(flushLog[k], d) <= 1
       /\ handed[d] <= 1
       /\ handed[d] = 1 <=> Reached(d)
  /\ (Quiet /\ buffer = <<>>) => \A d \in 1..passed : handed[d] = 1

\* a document is added while the flush of the two before it is still indexing
\* its first document
C9_Witness ==
  /\ ~callerAwaits
  /\ buffer = <<3>>
  /\ \E c \in 1..Len(calls) :
       /\ calls[c].pc = "index"
       /\ calls[c].loc.batch = <<1, 2>>
       /\ calls[c].loc.i = 1
  /\ handed[2] = 0

\* C10: with an awaiting caller the buffer stays below batchSize between the
\* runs of the code (so an add never makes it longer than batchSize), it is
\* below batchSize whenever no flush is in progress, and the documents added
\* but not yet counted in totalIndexed + totalFailed are at most batchSize.
C10_BoundedBuffer ==
  /\ Len(buffer) + 1 <= options.batchSize
  /\ ~FlushInProgress => getStats.pendingCount < options.batchSize
  /\ added - (totalIndexed + totalFailed) <= options.batchSize

\* a flush of a full batch of two is in progress: two added, none counted yet
C10_Witness ==
  /\ callerAwaits /\ options.batchSize = 2
  /\ FlushInProgress
  /\ added - (totalIndexed + totalFailed) = 2
\* --------------------------------------------- claims about the pipeline
InFlight == {j \in 1..Len(sent) : sent[j].state = "inflight"}
Requests(d) == {j \in 1..Len(sent) : sent[j].doc = d}
RECURSIVE Flatten(_)
Flatten(ss) == IF ss = <<>> THEN <<>> ELSE Head(ss) \o Flatten(Tail(ss))
InFlush(c) ==
  calls[c].pc \in {"index", "onProgress", "updateJobProgress", "sendProgressCallback"}
ChunkerGave(d, n) == \E j \in 1..Len(invoked) : invoked[j] = [doc |-> d, n |-> n]
HasReturned(d) ==
  /\ \E j \in 1..Len(invoked) : invoked[j].doc = d
  /\ \A a \in ic : a.doc # d

\* C11: with the awaiting orchestrator at most one upsert request is in
\* flight; chunk i > 0 of a document is sent right after chunk i - 1 of the
\* same document was answered with success; indexContent is called on the
\* documents in the order of the batches; and while a flush cycle runs all
\* earlier cycles have merged their counters and made every notification.
C11_SequentialUpserts ==
  /\ Cardinality(InFlight) <= 1
  /\ Cardinality(ic) <= 1
  /\ \A j \in 1..Len(sent) :
       sent[j].chunk > 0 =>
         /\ j > 1
         /\ sent[j - 1] = [doc |-> sent[j].doc, chunk |-> sent[j].chunk - 1,
                           state |-> "ok"]
  /\ \A j \in 1..Len(invoked) : invoked[j].doc = Flatten(flushLog)[j]
  /\ \A j \in 1..Len(sent) : \A k \in 1..Len(sent) :
       j < k => sent[j].doc <= sent[k].doc
  /\ Cardinality({c \in 1..Len(calls) : InFlush(c)}) <= 1
  /\ \A c \in 1..Len(calls) :
       InFlush(c) =>
         /\ calls[c].loc.flushNo = Len(flushLog)
         /\ \A k \in 1..(Len(flushLog) - 1) :
              /\ k \in merged
              /\ options.onProgress => Len(progressLog) >= k
              /\ options.jobId => Len(redisLog) >= k
              /\ options.callbackUrl => Len(httpLog) >= k

\* a second batch is being uploaded after a two-chunk document of the first
\* batch was stored chunk by chunk and the first batch made a notification
C11_Witness ==
  /\ Len(flushLog) >= 2
  /\ \E j \in 1..Len(sent) : sent[j].chunk = 1 /\ sent[j].state = "ok"
                             /\ sent[j].doc \in BatchDocs(1)
  /\ \E j \in InFlight : sent[j].doc \in BatchDocs(2)
  /\ Len(httpLog) >= 1

\* C12: a failed upsert of chunk i is the last request indexContent makes
\* for the document (no chunk i+1.., no second request for chunk i); the
\* call returns success=false, chunksIndexed=0 and an error message, which
\* the batch loop records; the chunks 0..i-1 are still in the vector store.
C12_AbortOnFirstChunkFailure ==
  /\ \A j \in 1..Len(sent) : \A k \in 1..Len(sent) :
       (j < k /\ sent[j].doc = sent[k].doc) =>
          /\ sent[j].state = "ok"
          /\ sent[j].chunk < sent[k].chunk
  /\ \A j \in 1..Len(sent) :
       sent[j].state = "failed" =>
          /\ \A i \in 0..(sent[j].chunk - 1) :
               [doc |-> sent[j].doc, chunk |-> i] \in stored
          /\ \A a \in ic :
               a.doc = sent[j].doc =>
                 /\ a.phase = "caught"
                 /\ IndexContentResult(a).success = FALSE
                 /\ IndexContentResult(a).chunksIndexed = 0
                 /\ IndexContentResult(a).error
          /\ HasReturned(sent[j].doc) =>
               /\ outcome[sent[j].doc] = "failed"
               /\ chunks[sent[j].doc] = 0
               /\ sent[j].doc \in MergedDocs =>
                    sent[j].doc \in Range(allErrors)

\* chunk 0 of a two-chunk document failed and chunk 1 was never sent; chunk 1
\* of another one failed with its chunk 0 in the store; both calls returned
C12_Witness ==
  \E d \in Docs : \E e \in Docs :
    /\ ChunkerGave(d, 2) /\ HasReturned(d)
    /\ \E j \in Requests(d) : sent[j].chunk = 0 /\ sent[j].state = "failed"
    /\ Cardinality(Requests(d)) = 1
    /\ ChunkerGave(e, 2) /\ HasReturned(e) /\ outcome[e] = "failed"
    /\ \E j \in Requests(e) : sent[j].chunk = 1 /\ sent[j].state = "failed"
    /\ [doc |-> e, chunk |-> 0] \in stored

\* C13: a document the chunker gives no chunk is never sent to the vector
\* store, indexContent reports it as a success with chunksIndexed = 0, and
\* the totals count it as indexed with no chunk.
C13_ZeroChunksIsSuccess ==
  /\ \A d \in Docs :
       ChunkerGave(d, 0) =>
          /\ Requests(d) = {}
          /\ \A a \in ic : a.doc = d =>
               IndexContentResult(a) =
                 [thrown |-> FALSE, success |-> TRUE, chunksIndexed |-> 0,
                  error |-> FALSE]
          /\ HasReturned(d) => outcome[d] = "ok" /\ chunks[d] = 0
  /\ totalIndexed = Cardinality(OkIn(MergedDocs))
  /\ totalFailed = Cardinality(FailedIn(MergedDocs))
  /\ totalChunks = SumOver(chunks, OkIn(MergedDocs))

\* a merged batch of a zero-chunk document and a stored one-chunk document
C13_Witness ==
  \E d \in MergedDocs : \E e \in MergedDocs :
    /\ ChunkerGave(d, 0)
    /\ ChunkerGave(e, 1) /\ outcome[e] = "ok"
    /\ totalIndexed = 2 /\ totalFailed = 0 /\ totalChunks = 1
    /\ sent # <<>>

\* ------------------------------------------------- claims about the job
Exited(p) == proc[p].pc = "exited"
Worked(p) == proc[p].cred = "found"
TrueCalls == {p \in Running : proc[p].ret = "true"}
AllReturned == \A p \in Running : proc[p].ret # "none"
RECURSIVE SumShards(_, _)
SumShards(f, n) == IF n = 0 THEN 0 ELSE f[n] + SumShards(f, n - 1)
ShardsIndexed == SumShards([p \in Procs |-> proc[p].indexed], job.shards)
ShardsFailed == SumShards([p \in Procs |-> proc[p].failed], job.shards)
Recorded == IsChunkedJob /\ job.jobId /\ job.recorded
\* markJobCompleted was called and has returned: all its SETs are in the store
Finalized ==
  /\ terminal # <<>>
  /\ \A j \in 1..Len(terminal) : pending[terminal[j].by] = {}
TerminalPosts == {m \in posts : m.status \in {"completed", "failed"}}
JobKeysKept ==
  /\ store'.status = store.status
  /\ store'.indexed = store.indexed
  /\ store'.failed = store.failed

C15_AggregatesAllShards ==
  Recorded =>
    /\ \A j \in 1..Len(terminal) :
         /\ terminal[j].indexed = ShardsIndexed
         /\ terminal[j].failed = ShardsFailed
         /\ \A p \in Running : proc[p].pc \notin {"main", "markJobStarted",
                "scrape", "index", "markBatchCompleted", "updateJobProgress",
                "finalize",
                "mcCompleted", "mcIndexed", "mcFailed", "mcIncr"}
    /\ Finalized =>
         /\ store.indexed = ShardsIndexed
         /\ store.failed = ShardsFailed
         /\ store.status = (IF ShardsFailed > ShardsIndexed THEN "failed"
                                                          ELSE "completed")

\* the job is finalized with both shards contributing to both sums
C15_Witness ==
  /\ Recorded /\ Finalized
  /\ proc[1].indexed >= 1 /\ proc[2].indexed >= 1
  /\ proc[1].failed + proc[2].failed >= 1
  /\ store.indexed = proc[1].indexed + proc[2].indexed
  /\ store.indexed > proc[1].indexed /\ store.indexed > proc[2].indexed

\* C16 as stated: from the moment the status key reads completed or failed,
\* no step changes the status, indexed or failed key.
C16_Original ==
  [][store.status \in {"completed", "failed"} => JobKeysKept]_vars

\* C16: once markJobCompleted has returned, no step changes the status,
\* indexed or failed key, in a single job and in a sharded one.
C16_TerminalOnceReturned ==
  [][Finalized => JobKeysKept]_vars

\* a sharded job is finalized while the other shard has not exited yet, and
\* the terminal counters differ from the last progress written
C16_Witness ==
  /\ Recorded /\ Finalized
  /\ store.status \in {"completed", "failed"}
  /\ \E p \in Running : ~Exited(p) /\ proc[p].ret = "false"
  /\ \E p \in Running : store.indexed # proc[p].indexed

\* C17 as stated: whenever a job is finalized, the status in the store, the
\* status of every terminal callback and every exit code say the same.
C17_Original ==
  /\ \A j \in 1..Len(terminal) :
       terminal[j].status = "failed" <=> terminal[j].failed > terminal[j].indexed
  /\ \A p \in Running :
       (Exited(p) /\ Worked(p)) =>
          /\ Finalized => (proc[p].exit # 0 <=> store.status = "failed")
          /\ \A m \in TerminalPosts : proc[p].exit # 0 <=> m.status = "failed"

\* C17: every markJobCompleted writes failed exactly when failed > indexed;
\* in a job that is not sharded the status in the store, the status of the
\* terminal callback and the exit code come from the one pair of main and
\* agree; in a sharded job the status comes from the sums over the shards
\* and each exit code from the shard's own pair.
C17_StatusFromOnePair ==
  /\ \A j \in 1..Len(terminal) :
       /\ terminal[j].status \in {"completed", "failed"}
       /\ terminal[j].status = "failed" <=> terminal[j].failed > terminal[j].indexed
  /\ \A p \in Running :
       (Exited(p) /\ Worked(p)) =>
          /\ proc[p].exit # 0 <=> proc[p].failed > proc[p].indexed
          /\ ~IsChunkedJob =>
               /\ job.jobId => /\ Finalized
                               /\ store.indexed = proc[p].indexed
                               /\ store.failed = proc[p].failed
                               /\ proc[p].exit # 0 <=> store.status = "failed"
               /\ job.callbackUrl => Cardinality(TerminalPosts) = 1
               /\ \A m \in TerminalPosts :
                    /\ m.indexed = proc[p].indexed /\ m.failed = proc[p].failed
                    /\ proc[p].exit # 0 <=> m.status = "failed"
  /\ (Recorded /\ Finalized) =>
        (store.status = "failed" <=> ShardsFailed > ShardsIndexed)

\* a single job with as many failed as indexed documents: completed, exit 0
C17_Witness ==
  /\ ~IsChunkedJob /\ job.jobId /\ job.callbackUrl
  /\ Exited(1) /\ proc[1].indexed = 1 /\ proc[1].failed = 1
  /\ store.status = "completed" /\ proc[1].exit = 0
  /\ \E m \in TerminalPosts : m.status = "completed"

\* C18: in a job that is not sharded every markJobCompleted call and every
\* terminal callback has indexed + failed = total = the number of URLs.
C18_CountsCoverTotal ==
  ~IsChunkedJob =>
    /\ \A j \in 1..Len(terminal) :
         terminal[j].indexed + terminal[j].failed = job.urls
    /\ \A m \in TerminalPosts :
         m.total = job.urls /\ m.indexed + m.failed = m.total

\* C19: a sharded job with a callbackUrl whose shards have all exited after
\* the job was finalized has had a terminal callback sent.
C19_TerminalCallbackSent ==
  (Recorded /\ job.callbackUrl /\ Finalized /\ \A p \in Running : Exited(p)) =>
     TerminalPosts # {}

\* C20: a process that resolves no vector-store credentials exits with code 1
\* having done nothing: no markJobStarted, no scrape, no document added, no
\* indexing, no POST, no store command sent, no markJobCompleted; a single
\* job leaves the store and the callback URL untouched.
C20_NoWorkWithoutCredentials ==
  \A p \in Running :
    proc[p].cred = "missing" =>
      /\ Exited(p) /\ proc[p].exit = 1
      /\ effects[p] = {}
      /\ pending[p] = {}
      /\ proc[p].ret = "none"
      /\ \A j \in 1..Len(terminal) : terminal[j].by # p
      /\ ~IsChunkedJob =>
           /\ posts = {}
           /\ store = [NoStore EXCEPT !.chunks_total = store.chunks_total]

\* a single job with a jobId and a callbackUrl has exited for want of
\* credentials
C20_Witness ==
  /\ ~IsChunkedJob /\ job.jobId /\ job.callbackUrl
  /\ proc[1].cred = "missing" /\ Exited(1)

\* ------------------------------------------------------------------ C23
EnvCredentials ==
  IF env.url # "" /\ env.token # "" THEN Cred(env.url, env.token) ELSE Raised
ExpectedAfter(set) == IF set.kind = "cred" THEN set ELSE EnvCredentials

\* C23: with the environment unchanged, every getCredentials call gives the
\* dynamic credentials of the most recent setDynamicCredentials call when
\* that call's argument was not null, otherwise (argument null, or no call
\* yet) the environment's credentials, and raises when the environment has
\* none: never credentials resolved before the most recent set call.
C23_ResolvesLatestSet ==
  \A j \in 1..Len(resolved) : resolved[j].got = ExpectedAfter(resolved[j].after)

\* credentials were resolved and cached, then replaced, then cleared, and
\* each resolution followed the set call before it
C23_Witness ==
  /\ Len(resolved) = 3
  /\ resolved[1].after.kind = "cred" /\ resolved[1].got = resolved[1].after
  /\ resolved[2].after.kind = "cred" /\ resolved[2].got = resolved[2].after
  /\ resolved[2].after # resolved[1].after
  /\ resolved[3].after = Null
  /\ resolved[3].got = Cred(env.url, env.token)

\* ----------------------------------------------------- vocabulary, chunker
HasChunkerReturned == cpc = "returned"
TrimmedLength == Len(Trim(content))
ValidSizes == chunkOverlap >= 0 /\ chunkOverlap < chunkSize
WindowOf(j) == Slice(limitedContent, ranges[j].from, ranges[j].to)
\* the white space trim() drops at the front of s
LeadingSpace(s) == Len(s) + 1 - Len(Trim(s \o <<"a">>))
\* chunk j is limitedContent from ChunkFrom(j) up to, not including, ChunkTo(j)
ChunkFrom(j) == ranges[j].from + LeadingSpace(WindowOf(j))
ChunkTo(j) == ChunkFrom(j) + Len(chunkList[j])
EndsAtBoundary(j) ==
  \/ ranges[j].to = Len(limitedContent)
  \/ /\ ranges[j].to >= 2
     /\ Slice(limitedContent, ranges[j].to - 2, ranges[j].to)
          \in {<<"\n", "\n">>, <<".", " ">>, <<"!", " ">>, <<"?", " ">>}

\* ------------------------------------------------------------------ C25
\* C25: whatever the text, chunkSize and chunkOverlap, no chunk the chunker
\* returns is shorter than the minimum chunk length (50), and a text whose
\* trimmed length is below 50 yields no chunk at all.
C25_MinimumLengthFloor ==
  /\ \A j \in 1..Len(chunkList) : Len(chunkList[j]) >= minChunkLength
  /\ (HasChunkerReturned /\ TrimmedLength < minChunkLength) => chunkList = <<>>

\* a text below the floor but longer than chunkSize went through the loop
\* and came back with no chunk
C25_Witness ==
  /\ HasChunkerReturned
  /\ TrimmedLength < minChunkLength
  /\ TrimmedLength > chunkSize
  /\ currentIndex > 0
  /\ chunkList = <<>>

\* ------------------------------------------------------------------ C26
\* C26: for 0 <= chunkOverlap < chunkSize every chunk returned has at most
\* chunkSize characters, also when a separator begins exactly at the
\* tentative end of the window.
C26_ChunkWithinSize ==
  ValidSizes => \A j \in 1..Len(chunkList) : Len(chunkList[j]) <= chunkSize

\* ------------------------------------------------------------------ C27
\* C27: for chunkOverlap < chunkSize the ranges the returned chunks were cut
\* from leave no gap: the first begins at the start of the text and each
\* later one begins at or before the end of the one before it.
C27_CoversWithoutGap ==
  ValidSizes =>
    /\ Len(ranges) >= 1 => ranges[1].from = 0
    /\ \A j \in 2..Len(ranges) : ranges[j].from <= ranges[j - 1].to

\* ------------------------------------------------------------------ C28
\* C28: for chunkSize >= 1 and chunkOverlap >= 0, also chunkOverlap >=
\* chunkSize, every iteration of the loop moves the window start strictly
\* forward and not past the end of the text, so the loop ends, and never are
\* more than maxChunksPerPage (50) chunks held.
C28_Terminates ==
  [][/\ cpc = "loop" =>
          currentIndex' > currentIndex /\ currentIndex' <= Len(limitedContent)
     /\ Len(chunkList') <= maxChunksPerPage]_vars

\* the loop was left at 50 chunks with text still ahead of the window
C28_Witness ==
  /\ HasChunkerReturned
  /\ Len(chunkList) = maxChunksPerPage
  /\ currentIndex < Len(limitedContent)

\* ------------------------------------------------------------------ C29
IsScenarioA == content = ShortText /\ chunkSize = 1000 /\ chunkOverlap = 200

IsScenarioB ==
  /\ content \in ScenarioTexts
  /\ Len(content) = 2500
  /\ chunkSize = 1000
  /\ chunkOverlap = 200

\* C30: a 2,500-character text of paragraphs, chunked with chunkSize 1000
\* and chunkOverlap 200, gives exactly 3 chunks, each ending at a paragraph
\* or sentence boundary (or at the end of the text), every two consecutive
\* chunks sharing at least 150 characters.
C30_ScenarioB ==
  (HasChunkerReturned /\ IsScenarioB) =>
    /\ Len(chunkList) = 3
    /\ \A j \in 1..Len(chunkList) : EndsAtBoundary(j)
    /\ \A j \in 1..(Len(chunkList) - 1) : ChunkTo(j) - ChunkFrom(j + 1) >= 150

\* ------------------------------------------------------------------ C24
FirstSucceeded == Len(results) >= 1 /\ results[1].success
BothSucceeded == Len(results) = 2 /\ results[1].success /\ results[2].success

AnswersTo(pr, to) == SelectSeq(pr.answers, LAMBDA a : a.to = to)
MidFlush(pr) == pr.pc \in {"markBatchCompleted", "updateJobProgress"}
Finishing(pr) ==
  /\ pr.cred = "found"
  /\ pr.pc \in {"finalize", "markJobCompleted", "callback", "sendCallback", "exited"}

\* what holds of a process whatever the callback endpoint answered: one
\* progress POST for each flush that is over; one terminal POST, answered
\* before the process exits; once the scrape loop is over every scraped
\* document has been flushed and the counters are those of the flushes made
\* (or the scraper threw before anything was buffered); the exit code is
\* that of the counters
BestEffort(pr) ==
  /\ Len(AnswersTo(pr, "progress")) = pr.batchNumber - (IF MidFlush(pr) THEN 1 ELSE 0)
  /\ Len(AnswersTo(pr, "terminal")) = (IF pr.pc = "exited" /\ pr.cred = "found"
                                         THEN 1 ELSE 0)
  /\ Finishing(pr) =>
       /\ pr.docs = 0
       /\ \/ pr.batchNumber = 0 /\ pr.indexed = 0
          \/ /\ pr.indexed + pr.failed <= pr.batchNumber * job.batchSize
             /\ pr.indexed + pr.failed > (pr.batchNumber - 1) * job.batchSize
  /\ pr.pc = "exited" /\ pr.cred = "found" =>
       pr.exit = ExitCode(pr.indexed, pr.failed)

\* the step in which a POST is answered: nothing is counted, failed or
\* dropped because of the answer, and the process goes where a flush cycle
\* (or main) goes next
AnswerStep(old, new) ==
  Len(new.answers) > Len(old.answers) =>
    /\ Len(new.answers) = Len(old.answers) + 1
    /\ LET a == new.answers[Len(new.answers)]
       IN IF a.to = "progress"
            THEN /\ new.indexed + new.failed + new.docs
                      = old.indexed + old.failed + old.docs
                 /\ new.pc = AfterBatch(new.docs)
            ELSE /\ new.indexed = old.indexed
                 /\ new.failed = old.failed
                 /\ new.pc = "exited"

\* C22: callback delivery is best-effort.  With callbackUrl set each flush
\* attempts exactly one progress POST and none is retried; whether a progress
\* or terminal POST is answered 2xx, with another status or not at all, the
\* failure is not raised to the caller, the cumulative counters are those of
\* the documents flushed, the later batches are flushed and the process
\* exits with the code of its counters.
C22_CallbacksBestEffort ==
  [][\A p \in Running : /\ AnswerStep(proc[p], proc'[p])
                        /\ BestEffort(proc'[p])]_vars

\* a process whose first progress POST failed in the network, which flushed
\* another batch all the same, indexed both documents, and whose terminal
\* POST was answered with an error status before it exited with code 0
C22_Witness ==
  \E p \in Running :
    /\ job.callbackUrl
    /\ proc[p].pc = "exited"
    /\ proc[p].indexed = 2
    /\ proc[p].exit = 0
    /\ Len(AnswersTo(proc[p], "progress")) = 2
    /\ AnswersTo(proc[p], "progress")[1].ans = "network"
    /\ AnswersTo(proc[p], "terminal") = <<[to |-> "terminal", ans |-> "status"]>>

\* ---------------------------------------------------------------- C21
\* the store as the dispatcher left it
UntouchedStore ==
  [NoStore EXCEPT !.chunks_total = IF job.recorded THEN job.shards ELSE Nil]

\* the steps of markChunkCompleted and finalizeJobAfterChunks that send a
\* command to the store
ChunkCommandSteps ==
  {"mcCompleted", "mcIndexed", "mcFailed", "mcIncr", "mcGetTotal",
   "finGetTotal", "finIndexed", "finFailed", "finWrite"}

\* no command of the job or of the client is in flight or has reached the
\* store
NoStoreRequest ==
  /\ \A p \in Running : /\ pending[p] = {}
                        /\ proc[p].pc \notin ChunkCommandSteps
  /\ store = UntouchedStore
  /\ reader.pc # "reading"
  /\ reader.left = {}

\* the process is past "Mark job as completed" of main
PastFinalize(pr) ==
  pr.cred = "found" /\ pr.pc \in {"callback", "sendCallback", "exited"}

\* what the operations of the store return without a configuration
ReturnsWithoutStore ==
  /\ reader.pc = "returned" => reader.result = [kind |-> "null"]
  /\ \A p \in Running :
       /\ PastFinalize(proc[p]) /\ IsChunkedJob => proc[p].ret = "false"
       /\ proc[p].total = Nil /\ proc[p].completed = Nil
  /\ terminal # <<>> => ~IsChunkedJob

\* what a process indexes, with or without the store: every operation of the
\* store it awaits returns, so it is never stuck in one with nothing in
\* flight; past the scrape loop every scraped document went through a flush
\* of batchSize documents and is counted once; it exits with the code of its
\* counters
IndexesAllTheSame(p) ==
  LET pr == proc[p]
  IN /\ pr.cred = "found" /\ pr.pc \notin {"scrape", "index", "markJobStarted"} =>
          "scrape" \in effects[p]
     /\ pr.cred = "found" /\ pr.pc \in {"finalize", "markJobCompleted", "callback",
                                         "sendCallback", "exited"} =>
          /\ pr.docs = 0
          /\ \/ pr.batchNumber = 0 /\ pr.indexed = 0
             \/ /\ pr.indexed + pr.failed <= pr.batchNumber * job.batchSize
                /\ pr.indexed + pr.failed > (pr.batchNumber - 1) * job.batchSize
          /\ pr.indexed > 0 => "index" \in effects[p]
     /\ pr.pc = "exited" /\ pr.cred = "found" =>
          pr.exit = ExitCode(pr.indexed, pr.failed)

\* C21: without the two environment variables of the Job Status Store every
\* operation of the store (markJobStarted, markBatchCompleted,
\* updateJobProgress, markJobCompleted, markChunkCompleted, getJobStatus)
\* sends no request and returns (getJobStatus null, markChunkCompleted
\* false), and the processes scrape, flush, count and exit as they do with
\* the store configured.
C21_StoreOptional ==
  /\ ~job.redis => NoStoreRequest /\ ReturnsWithoutStore
  /\ \A p \in Running : IndexesAllTheSame(p)

\* a sharded job without the store: both shards called markJobStarted or
\* markBatchCompleted and updateJobProgress, flushed a batch, were told
\* false by markChunkCompleted and exited with code 0, one document indexed
\* each, and a client was told null by getJobStatus
C21_Witness ==
  /\ ~job.redis
  /\ IsChunkedJob
  /\ reader.pc = "returned"
  /\ "markJobStarted" \in effects[1]
  /\ \A p \in Running : /\ proc[p].pc = "exited"
                        /\ proc[p].indexed = 1
                        /\ proc[p].batchNumber = 1
                        /\ proc[p].ret = "false"
                        /\ proc[p].exit = 0

\* ---------------------------------------------------------------- C31
\* the vectors sent for chunks after the first
LaterVectors == {j \in 1..Len(vectorLog) : vectorLog[j].metadata.chunkIndex >= 1}
FirstVectors == {j \in 1..Len(vectorLog) : vectorLog[j].metadata.chunkIndex = 0}

\* C31 as stated: no record with chunkIndex >= 1 carries a description or
\* an images field.
C31_Original ==
  \A j \in LaterVectors :
    /\ vectorLog[j].metadata.description = Absent
    /\ vectorLog[j].metadata.images = Absent

\* C31 amended: in the records indexContent upserts the image list, capped
\* at five, and the image count appear in the metadata of the first chunk
\* only, when the document has images; the description appears in the
\* metadata of every chunk of a document that has a description, and of no
\* other.
C31_ImagesOnFirstChunkOnly ==
  /\ \A j \in LaterVectors :
       /\ vectorLog[j].metadata.images = Absent
       /\ vectorLog[j].metadata.imageCount = Absent
  /\ \A j \in FirstVectors :
       IF document.images > 0
         THEN /\ vectorLog[j].metadata.images.kind = "set"
              /\ vectorLog[j].metadata.images.val <= ImageLimit
              /\ vectorLog[j].metadata.images.val <= document.images
              /\ vectorLog[j].metadata.imageCount = Field(document.images)
         ELSE /\ vectorLog[j].metadata.images = Absent
              /\ vectorLog[j].metadata.imageCount = Absent
  /\ \A j \in 1..Len(vectorLog) :
       vectorLog[j].metadata.description =
         (IF document.description = <<>> THEN Absent
                                         ELSE Field(document.description))

\* a document with a description and seven images was cut into several
\* chunks: the first record carries five images, a later one none, and the
\* later one carries the description
C31_Witness ==
  /\ document.images = 7
  /\ document.description # <<>>
  /\ \E j \in FirstVectors : vectorLog[j].metadata.images = Field(5)
  /\ \E j \in LaterVectors :
       /\ vectorLog[j].metadata.totalChunks >= 2
       /\ vectorLog[j].metadata.images = Absent
       /\ vectorLog[j].metadata.description = Field(document.description)

\* ---------------------------------------------------------------- C32
\* the upsert requests for documents of S that the vector store answered 2xx
UpsertedFor(S) == {j \in 1..Len(sent) : sent[j].state = "ok" /\ sent[j].doc \in S}

\* C32: chunksIndexed of every BatchProgress and totalChunks of getStats()
\* are the number of chunk records successfully upserted so far for the
\* documents of the batches counted, also when a document failed after some
\* of its chunks had been upserted.
C32_ChunksCountUpserts ==
  /\ getStats.totalChunks = Cardinality(UpsertedFor(MergedDocs))
  /\ \A k \in 1..Len(progressLog) :
       progressLog[k].chunksIndexed = Cardinality(UpsertedFor(UpTo(k)))

\* ---------------------------------------------------------------- C33
\* a sink that is configured has been invoked for the flush cycles 1..n and
\* for no other; a sink that is not configured has never been invoked
Served(log, configured, n) == Len(log) = (IF configured THEN n ELSE 0)

\* the sinks invoked so far when the flush cycle k of call c is at pc, the
\* cycles before it being over
SinksAt(c, pc, k) ==
  /\ (k \in merged) = (pc # "index")
  /\ Served(progressLog, options.onProgress, IF pc = "index" THEN k - 1 ELSE k)
  /\ Served(redisLog, options.jobId,
            IF pc \in {"index", "onProgress"} THEN k - 1 ELSE k)
  /\ Served(httpLog, options.callbackUrl,
            IF pc = "sendProgressCallback" THEN k ELSE k - 1)
  /\ pc = "onProgress" => options.onProgress
  /\ pc = "updateJobProgress" => options.jobId
  /\ pc = "sendProgressCallback" => options.callbackUrl
  /\ pc # "index" =>
       /\ calls[c].loc.progress.batchNumber = k
       /\ calls[c].loc.progress.indexedCount = totalIndexed
       /\ calls[c].loc.progress.failedCount = totalFailed
       /\ calls[c].loc.progress.chunksIndexed = totalChunks

\* C33: with an awaiting caller, a flush cycle merges its counters into the
\* totals before it invokes any sink; it then invokes onProgress, then
\* updateJobProgress (with a jobId only), then the progress POST (with a
\* callbackUrl only), each once at most and each with the merged totals;
\* and a cycle that is over has invoked every configured sink, whether or
\* not onProgress threw.
C33_SinksInOrder ==
  /\ \A c \in 1..Len(calls) :
       calls[c].pc # "next" => SinksAt(c, calls[c].pc, calls[c].loc.flushNo)
  /\ ~FlushInProgress =>
       /\ merged = 1..Len(flushLog)
       /\ Served(progressLog, options.onProgress, Len(flushLog))
       /\ Served(redisLog, options.jobId, Len(flushLog))
       /\ Served(httpLog, options.callbackUrl, Len(flushLog))

\* the second flush cycle is at its progress POST: its onProgress threw, its
\* updateJobProgress call was made all the same, and the first cycle went
\* through the three sinks
C33_Witness ==
  /\ options.onProgress /\ options.jobId /\ options.callbackUrl
  /\ Len(calls) = 1
  /\ calls[1].pc = "sendProgressCallback"
  /\ calls[1].loc.flushNo = 2
  /\ 2 \in threw
  /\ Len(progressLog) = 2 /\ Len(redisLog) = 2 /\ Len(httpLog) = 2

\* ---------------------------------------------------------------- C34
\* C34 as stated: whenever getStats() is called with no flush in progress,
\* totalIndexed + totalFailed + pendingCount of the record it returns is the
\* number of documents passed to add/addMultiple so far, and the call
\* changes no state of the indexer.
C34_Original ==
  [][stats' # stats =>
       /\ UNCHANGED indexerVars
       /\ ~FlushInProgress =>
            stats'.at.totalIndexed + stats'.at.totalFailed
              + stats'.at.pendingCount = passed]_vars

\* C34 amended: a call of getStats() changes no state of the indexer, and
\* whenever it is made with no flush in progress the record it returns
\* satisfies totalIndexed + totalFailed + pendingCount = the number of
\* documents handed to add so far, by the caller or by the loop of
\* addMultiple; with no call in progress that is the number of documents
\* passed to add/addMultiple.
C34_StatsAccountForAll ==
  [][stats' # stats =>
       /\ UNCHANGED indexerVars
       /\ stats'.at = getStats
       /\ ~FlushInProgress =>
            stats'.at.totalIndexed + stats'.at.totalFailed
              + stats'.at.pendingCount = added
       /\ Quiet =>
            stats'.at.totalIndexed + stats'.at.totalFailed
              + stats'.at.pendingCount = passed]_vars

\* getStats() was called after a batch of two, one document indexed and one
\* failed, and a third document that stays in the buffer
C34_Witness ==
  /\ stats = [kind |-> "stats", at |-> getStats]
  /\ Quiet
  /\ passed = 3
  /\ stats.at.totalIndexed = 1
  /\ stats.at.totalFailed = 1
  /\ stats.at.pendingCount = 1

\* ---------------------------------------------------------------- C35
\* the flush cycles whose snapshot has been built
AtSinks == {c \in 1..Len(calls) :
              calls[c].pc \in {"onProgress", "updateJobProgress", "sendProgressCallback"}}

\* C35: also when flush cycles overlap, the BatchProgress snapshot of a cycle
\* carries the batchNumber assigned to that cycle's batch, with cumulative
\* totals that include the batch and are not ahead of the indexer's, and no
\* two snapshots handed to onProgress carry the same batchNumber.
C35_SnapshotKeepsItsNumber ==
  /\ \A c \in AtSinks :
       LET k == calls[c].loc.flushNo
           snapshot == calls[c].loc.progress
       IN /\ snapshot.batchNumber = k
          /\ snapshot.indexedCount >= Cardinality(OkIn(BatchDocs(k)))
          /\ snapshot.indexedCount <= totalIndexed
          /\ snapshot.failedCount >= Cardinality(FailedIn(BatchDocs(k)))
          /\ snapshot.failedCount <= totalFailed
  /\ \A i \in 1..Len(progressLog) : \A j \in 1..Len(progressLog) :
       i # j => progressLog[i].batchNumber # progressLog[j].batchNumber

\* ---------------------------------------------------------------- C36
\* C36: for one brandSlug and one chunk index, the vectors of two pages with
\* different URLs never get the same id, so indexing a page never overwrites
\* a record of another page.
C36_IdsInjectiveInUrl ==
  \A i \in 1..Len(vectorLog) : \A j \in 1..Len(vectorLog) :
    (/\ vectorLog[i].metadata.url # vectorLog[j].metadata.url
     /\ vectorLog[i].metadata.chunkIndex = vectorLog[j].metadata.chunkIndex)
       => vectorLog[i].id # vectorLog[j].id

\* ---------------------------------------------------------------- C37
\* C37: while the shards of a sharded job write progress for one jobId, the
\* indexed value stored for the job never decreases from one write to the
\* next before the job is finalized.
C37_StoredIndexedNeverDecreases ==
  [][(/\ IsChunkedJob
      /\ job.jobId
      /\ terminal' = <<>>
      /\ store.indexed # Nil
      /\ store'.indexed # Nil) => store'.indexed >= store.indexed]_vars

\* ---------------------------------------------------------------- C38
\* the chunk cut from ranges[j] lies wholly inside the range of the chunk
\* returned before it
InsidePrevious(j) ==
  /\ ranges[j].from >= ranges[j - 1].from
  /\ ranges[j].to <= ranges[j - 1].to

\* C38: for a text longer than chunkSize (and chunkOverlap below chunkSize)
\* the chunk whose window reaches the end of the text is the last one
\* returned: no chunk follows one whose
\* range ends at the end of the text, and no chunk lies wholly inside the
\* range of the chunk returned before it.
C38_EndWindowIsLast ==
  (ValidSizes /\ Len(limitedContent) > chunkSize) =>
    \A j \in 2..Len(ranges) :
      /\ ranges[j - 1].to # Len(limitedContent)
      /\ ~InsidePrevious(j)

\* ---------------------------------------------------------------- C39
\* C39: flush() called on an empty buffer is a no-op: batchNumber, the
\* cumulative counters and the error list are unchanged, no onProgress call,
\* status-store write or HTTP callback is made, and no flush cycle is begun.
C39_FlushOnEmptyIsNoOp ==
  [][(flushCalls' # flushCalls /\ buffer = <<>>) =>
       /\ batchNumber' = batchNumber
       /\ totalIndexed' = totalIndexed
       /\ totalFailed' = totalFailed
       /\ totalChunks' = totalChunks
       /\ allErrors' = allErrors
       /\ progressLog' = progressLog
       /\ redisLog' = redisLog
       /\ httpLog' = httpLog
       /\ flushLog' = flushLog
       /\ calls' = calls
       /\ buffer' = <<>>]_vars

\* flush() was called, each time on an empty buffer, on an indexer that has
\* indexed a batch and reported it
C39_Witness ==
  /\ flushCalls = MaxFlushCalls
  /\ explicit = {}
  /\ batchNumber >= 1
  /\ totalIndexed >= 1
  /\ Len(progressLog) = batchNumber
  /\ calls = <<>>
  /\ buffer = <<>>

====
